---- MODULE Spec2Model ----
(***************************************************************************)
(* RxGuard: resolution of a drug name to a pinned FDA label snapshot, the  *)
(* deterministic policy gate over that snapshot, the proof card and the    *)
(* composed response.                                                      *)
(*                                                                         *)
(* Text is modelled by TLA+ strings, character by character: a JavaScript  *)
(* string index i (0-based) is position i + 1 here.  U+2026, the ellipsis  *)
(* the policy appends to a preview, is written "~": no label text of the   *)
(* model contains it.                                                      *)
(***************************************************************************)
EXTENDS Integers, Sequences, FiniteSets, TLC

(***************************************************************************)
(* Strings                                                                 *)
(***************************************************************************)
Char(s, i) == SubSeq(s, i, i)

Min(a, b) == IF a < b THEN a ELSE b
Max(a, b) == IF a > b THEN a ELSE b

\* Firestore has a 1MiB per doc limit; evidence text above this many bytes
\* goes to the overflow blob store.
MAX_FIRESTORE_DOC_BYTES == 900000

RECURSIVE Rep(_, _)
Rep(c, n) ==
    IF n = 0 THEN ""
    ELSE IF n = 1 THEN c
    ELSE LET h == Rep(c, n \div 2)
         IN  IF n % 2 = 0 THEN h \o h ELSE h \o h \o c

\* A label section as long as the inline limit: a run of one letter.  A text
\* that ends with it is scanned character by character up to the start of
\* the run only.  That loses nothing: the run is uniform and ends the text,
\* so a substring that starts inside the run also starts at its first
\* position, and the run holds no upper-case letter and no white space.
Filler == Rep("x", MAX_FIRESTORE_DOC_BYTES)

HasFiller(s) ==
    /\ Len(s) >= MAX_FIRESTORE_DOC_BYTES
    /\ SubSeq(s, Len(s) - MAX_FIRESTORE_DOC_BYTES + 1, Len(s)) = Filler

\* Length of the part of s before a trailing Filler run.
HeadLen(s) == IF HasFiller(s) THEN Len(s) - MAX_FIRESTORE_DOC_BYTES ELSE Len(s)

TailOf(s) == IF HasFiller(s) THEN Filler ELSE ""

UpperLetters == "ABCDEFGHIJKLMNOPQRSTUVWXYZ"
LowerLetters == "abcdefghijklmnopqrstuvwxyz"
Digits == "0123456789"

CharsOf(s) == {Char(s, i) : i \in 1..Len(s)}

LowerOf == [c \in CharsOf(UpperLetters) |->
              Char(LowerLetters, CHOOSE i \in 1..26 : Char(UpperLetters, i) = c)]

LowerChar(c) == IF c \in DOMAIN LowerOf THEN LowerOf[c] ELSE c

\* JavaScript \s and String.prototype.trim, on the characters of the model.
WhiteSpace == {" ", "\n", "\r", "\t"}
LineBreaks == {"\n", "\r"}
\* JavaScript \w.
WordChars == CharsOf(UpperLetters) \cup CharsOf(LowerLetters) \cup CharsOf(Digits) \cup {"_"}

RECURSIVE LowerRange(_, _, _)
LowerRange(s, lo, hi) ==
    IF lo > hi THEN ""
    ELSE IF lo = hi THEN LowerChar(Char(s, lo))
    ELSE LET mid == (lo + hi) \div 2
         IN  LowerRange(s, lo, mid) \o LowerRange(s, mid + 1, hi)

\* String.prototype.toLowerCase
toLowerCase(s) == LowerRange(s, 1, HeadLen(s)) \o TailOf(s)

\* s.replace(/[C]+/g, ' ') for a character class C: the first character of
\* each run becomes one space, the rest of the run is dropped.
RECURSIVE SquashRange(_, _, _, _)
SquashRange(s, C, lo, hi) ==
    IF lo > hi THEN ""
    ELSE IF lo = hi
         THEN IF Char(s, lo) \in C
              THEN IF lo > 1 /\ Char(s, lo - 1) \in C THEN "" ELSE " "
              ELSE Char(s, lo)
    ELSE LET mid == (lo + hi) \div 2
         IN  SquashRange(s, C, lo, mid) \o SquashRange(s, C, mid + 1, hi)

Squash(s, C) == SquashRange(s, C, 1, HeadLen(s)) \o TailOf(s)

RECURSIVE FirstNonWs(_, _, _)
\* The first position in lo..hi that holds no white space, 0 if there is none.
FirstNonWs(s, lo, hi) ==
    IF lo > hi THEN 0
    ELSE IF lo = hi THEN IF Char(s, lo) \in WhiteSpace THEN 0 ELSE lo
    ELSE LET mid == (lo + hi) \div 2
             left == FirstNonWs(s, lo, mid)
         IN  IF left # 0 THEN left ELSE FirstNonWs(s, mid + 1, hi)

RECURSIVE LastNonWs(_, _, _)
\* The last position in lo..hi that holds no white space, 0 if there is none.
LastNonWs(s, lo, hi) ==
    IF lo > hi THEN 0
    ELSE IF lo = hi THEN IF Char(s, lo) \in WhiteSpace THEN 0 ELSE lo
    ELSE LET mid == (lo + hi) \div 2
             right == LastNonWs(s, mid + 1, hi)
         IN  IF right # 0 THEN right ELSE LastNonWs(s, lo, mid)

\* String.prototype.trim
trim(s) ==
    LET first == FirstNonWs(s, 1, Min(Len(s), HeadLen(s) + 1))
    IN  IF first = 0 THEN "" ELSE SubSeq(s, first, LastNonWs(s, first, Len(s)))

\* String.prototype.slice(start, end) for 0 <= start, end <= length.
slice(s, start, end) == SubSeq(s, start + 1, end)

MatchesAt(h, n, i) ==
    i + Len(n) - 1 <= Len(h) /\ SubSeq(h, i, i + Len(n) - 1) = n

\* Positions at which a match can start (see Filler).
ScanTo(h, n) == Min(Len(h) - Len(n) + 1, HeadLen(h) + 1)

\* String.prototype.includes
includes(h, n) == \E i \in 1..ScanTo(h, n) : MatchesAt(h, n, i)

\* The least element of a set of positions, 0 for the empty set.
First(S) == IF S = {} THEN 0 ELSE CHOOSE i \in S : \A j \in S : i <= j

\* String.prototype.indexOf, 0-based; -1 when absent.
indexOf(h, n) == First({i \in 1..ScanTo(h, n) : MatchesAt(h, n, i)}) - 1

RECURSIVE JoinRange(_, _, _, _)
JoinRange(parts, sep, lo, hi) ==
    IF lo > hi THEN ""
    ELSE IF lo = hi THEN parts[lo]
    ELSE LET mid == (lo + hi) \div 2
         IN  JoinRange(parts, sep, lo, mid) \o sep \o JoinRange(parts, sep, mid + 1, hi)

\* Array.prototype.join
Join(parts, sep) == JoinRange(parts, sep, 1, Len(parts))

\* Array.prototype.map
Map(seq, Op(_)) == [i \in 1..Len(seq) |-> Op(seq[i])]

\* The lists of up to n distinct elements of a pool.
CandidateLists(pool, n) ==
    {rs \in UNION {[1..k -> pool] : k \in 0..n} :
        \A i \in 1..Len(rs), j \in 1..Len(rs) : i # j => rs[i] # rs[j]}

\* An optional value: <<>> when undefined, <<v>> when present.
Undefined == <<>>
Some(v) == <<v>>
\* v ?? d
OrElse(opt, d) == IF opt = Undefined THEN d ELSE opt[1]

(***************************************************************************)
(* utils.ts                                                                *)
(***************************************************************************)
\* An ideal hash: equal digests only for equal texts.
sha256Hex(text) == "sha256:" \o text

normalizeForMatch(s) == trim(Squash(toLowerCase(s), WhiteSpace))

safeOneLine(s) == trim(Squash(s, LineBreaks))

RECURSIVE FilterRange(_, _, _, _, _)
\* Positions lo..hi of s without the characters in C (keep = FALSE) or
\* without the characters outside C (keep = TRUE): s.replace(/[C]/g, '') and
\* s.replace(/[^C]/g, '').
FilterRange(s, C, keep, lo, hi) ==
    IF lo > hi THEN ""
    ELSE IF lo = hi THEN IF (Char(s, lo) \in C) = keep THEN Char(s, lo) ELSE ""
    ELSE LET mid == (lo + hi) \div 2
         IN  FilterRange(s, C, keep, lo, mid) \o FilterRange(s, C, keep, mid + 1, hi)

KeyChars == CharsOf(LowerLetters) \cup CharsOf(Digits) \cup WhiteSpace \cup {"-"}

normalizeForKey(s) ==
    LET a == Squash(trim(toLowerCase(s)), WhiteSpace)
    IN  Squash(FilterRange(a, KeyChars, TRUE, 1, Len(a)), WhiteSpace)

\* The label texts of the model are ASCII: one byte per character.
bytesUtf8(s) == Len(s)

clamp(n, min, max) == Max(min, Min(max, n))

chunkTextAround(text, index, radius) ==
    LET start == clamp(index - radius, 0, Len(text))
        end == clamp(index + radius, 0, Len(text))
    IN  trim(slice(text, start, end))

(***************************************************************************)
(* evidence.ts                                                             *)
(***************************************************************************)
\* An OpenFdaLabelRecord.  A missing array field is the empty array: every
\* reader of the record takes `field ?? []` or joinSection(field).
NoRecord ==
    [id |-> Undefined, set_id |-> Undefined, effective_time |-> Undefined,
     brand_name |-> <<>>, generic_name |-> <<>>,
     active_ingredient |-> <<>>, boxed_warning |-> <<>>,
     contraindications |-> <<>>, warnings |-> <<>>,
     warnings_and_cautions |-> <<>>, drug_interactions |-> <<>>,
     pregnancy |-> <<>>, lactation |-> <<>>, pediatric_use |-> <<>>,
     geriatric_use |-> <<>>, do_not_use |-> <<>>, ask_doctor |-> <<>>]

joinSection(v) == Join(Map(v, safeOneLine), "\n")

\* The record field each evidence section is made of.
SectionFields ==
    [activeIngredients |-> "active_ingredient",
     boxedWarning |-> "boxed_warning",
     contraindications |-> "contraindications",
     warnings |-> "warnings",
     warningsAndCautions |-> "warnings_and_cautions",
     drugInteractions |-> "drug_interactions",
     pregnancy |-> "pregnancy",
     lactation |-> "lactation",
     pediatricUse |-> "pediatric_use",
     geriatricUse |-> "geriatric_use",
     doNotUse |-> "do_not_use",
     askDoctor |-> "ask_doctor"]

extractEvidenceSections(record) ==
    [key \in DOMAIN SectionFields |-> joinSection(record[SectionFields[key]])]

CanonicalPart(title, body) ==
    "=== " \o title \o " ===\n" \o trim(Squash(safeOneLine(body), WhiteSpace))

buildCanonicalEvidenceText(sections) ==
    LET parts == <<<<"ACTIVE INGREDIENTS", sections.activeIngredients>>,
                   <<"BOXED WARNING", sections.boxedWarning>>,
                   <<"CONTRAINDICATIONS", sections.contraindications>>,
                   <<"WARNINGS", sections.warnings>>,
                   <<"WARNINGS AND CAUTIONS", sections.warningsAndCautions>>,
                   <<"DRUG INTERACTIONS", sections.drugInteractions>>,
                   <<"PREGNANCY", sections.pregnancy>>,
                   <<"LACTATION", sections.lactation>>,
                   <<"PEDIATRIC USE", sections.pediatricUse>>,
                   <<"GERIATRIC USE", sections.geriatricUse>>,
                   <<"DO NOT USE", sections.doNotUse>>,
                   <<"ASK A DOCTOR", sections.askDoctor>>>>
    IN  Join([i \in 1..12 |-> CanonicalPart(parts[i][1], parts[i][2])], "\n\n")

\* buildLabelSnapshot throwing only on a record that lacks both fields.
MissingIdentity_Both(record) ==
    OrElse(record.set_id, "") = "" /\ OrElse(record.effective_time, "") = ""

\* buildLabelSnapshot throws on a record without set_id or effective_time.
MissingIdentity(record) ==
    OrElse(record.set_id, "") = "" \/ OrElse(record.effective_time, "") = ""

buildLabelSnapshot(record) ==
    LET Snapshot(sections, evidenceText) ==
            [setId |-> OrElse(record.set_id, ""),
             effectiveTime |-> OrElse(record.effective_time, ""),
             evidenceHash |-> sha256Hex(evidenceText),
             evidenceText |-> evidenceText,
             sections |-> sections,
             brandNames |-> record.brand_name,
             genericNames |-> record.generic_name,
             activeIngredientsList |-> record.active_ingredient]
        Canonical(sections) == Snapshot(sections, buildCanonicalEvidenceText(sections))
    IN  Canonical(extractEvidenceSections(record))

quoteExistsInEvidence(evidenceText, quote) ==
    LET Exists(ev, q) == q # "" /\ includes(ev, q)
    IN  Exists(normalizeForMatch(evidenceText), normalizeForMatch(quote))

(***************************************************************************)
(* policy.ts                                                               *)
(***************************************************************************)
\* The risk scale of bumpRisk: UNKNOWN < LOW < MODERATE < HIGH.
RiskLabels == {"UNKNOWN", "LOW", "MODERATE", "HIGH"}
Decisions == {"BLOCK", "CAUTION", "CLARIFY", "INFO"}

\* One alternative of a rule's regular expression, all with the i flag:
\* (\b)? lit (.+)? (\b)? with lit in lower case.
Lit(lit) == [pre |-> FALSE, lit |-> lit, dot |-> FALSE, post |-> FALSE]
Word(lit) == [pre |-> TRUE, lit |-> lit, dot |-> FALSE, post |-> TRUE]

BASE_RULES ==
    <<[id |-> "BOXED_WARNING_PRESENT", section |-> "boxedWarning",
       pattern |-> <<[pre |-> TRUE, lit |-> "", dot |-> TRUE, post |-> FALSE]>>,
       reason |-> "Boxed warning section is present.", severity |-> "HIGH"],
      [id |-> "CONTRAINDICATION_MENTION", section |-> "contraindications",
       pattern |-> <<Lit("contraindicated"), Lit("contraindication"),
                     Word("do not use"), Word("should not"), Word("must not")>>,
       reason |-> "Contraindication / strong avoidance language appears.",
       severity |-> "HIGH"],
      [id |-> "PREGNANCY_RISK_LANGUAGE", section |-> "pregnancy",
       pattern |-> <<Lit("pregnan"), Lit("fetal"), Lit("embryo"), Lit("teratogen"),
                     Lit("ductus arteriosus")>>,
       reason |-> "Pregnancy-related risk language appears.", severity |-> "HIGH"],
      [id |-> "BLEEDING_RISK_LANGUAGE", section |-> "CANONICAL",
       pattern |-> <<Lit("bleed"), Lit("hemorrhag"), Lit("gastrointestinal"),
                     Lit("ulcer")>>,
       reason |-> "Bleeding risk language appears.", severity |-> "MODERATE"],
      [id |-> "RENAL_RISK_LANGUAGE", section |-> "CANONICAL",
       pattern |-> <<Lit("renal"), Lit("kidney"), Lit("nephro")>>,
       reason |-> "Kidney/renal risk language appears.", severity |-> "MODERATE"],
      [id |-> "DRUG_INTERACTION_SECTION", section |-> "drugInteractions",
       pattern |-> <<Lit("interact"), Lit("concomitant"), Lit("co-administration"),
                     Lit("avoid")>>,
       reason |-> "Drug interaction language appears.", severity |-> "MODERATE"]>>

IsWordAt(t, i) == i >= 1 /\ i <= Len(t) /\ Char(t, i) \in WordChars

\* \b before position i.
Boundary(t, i) == IsWordAt(t, i - 1) # IsWordAt(t, i)

\* The alternative matches the lower-cased text t at position i.
AltMatchesAt(t, alt, i) ==
    LET after == i + Len(alt.lit)
    IN  /\ MatchesAt(t, alt.lit, i)
        /\ alt.pre => Boundary(t, i)
        /\ alt.dot => after <= Len(t) /\ Char(t, after) \notin LineBreaks
        /\ alt.post => Boundary(t, after)

\* Where text.match(pattern) matches first, as a position; 0 for no match.
MatchIndex(text, pattern) ==
    LET t == toLowerCase(text)
    IN  First({i \in 1..(HeadLen(t) + 1) :
                 \E k \in 1..Len(pattern) : AltMatchesAt(t, pattern[k], i)})

\* pattern.test(text)
Test(text, pattern) == MatchIndex(text, pattern) # 0

getSectionText(snapshot, key) ==
    IF key = "CANONICAL" THEN snapshot.evidenceText ELSE snapshot.sections[key]

\* The radius of the chunk a quote is cut from.
QuoteRadius == 220

\* The quote of a matching rule, or Undefined.
extractQuote(text, pattern) ==
    LET Quote(chunk) == IF Len(chunk) > 0 THEN Some(chunk) ELSE Undefined
        Around(m) == IF m = 0 THEN Undefined
                     ELSE Quote(chunkTextAround(text, m - 1, QuoteRadius))
    IN  Around(MatchIndex(text, pattern))

RiskOrder == [r \in RiskLabels |->
                CASE r = "UNKNOWN" -> 0 [] r = "LOW" -> 1
                  [] r = "MODERATE" -> 2 [] r = "HIGH" -> 3]

\* The risk of the later rule, whatever the risk so far.
bumpRisk_Latest(current, next) == next

bumpRisk(current, next) ==
    IF RiskOrder[next] > RiskOrder[current] THEN next ELSE current

\* profileHasPregnancy without the exclusion of 'no' and 'unknown'.
profileHasPregnancy_AnyStatus(profile) ==
    profile # Undefined /\ profile[1].pregnancy # Undefined

\* A profile: Undefined, or <<p>> with p.pregnancy optional and the lists
\* empty when missing (the policy reads them as `list ?? []`).
profileHasPregnancy(profile) ==
    IF profile = Undefined \/ profile[1].pregnancy = Undefined THEN FALSE
    ELSE profile[1].pregnancy[1] # "no" /\ profile[1].pregnancy[1] # "unknown"

profileHasCondition(profile, keywords) ==
    LET cond == IF profile = Undefined THEN <<>> ELSE profile[1].conditions
    IN  \E k \in 1..Len(keywords) : \E c \in 1..Len(cond) :
            includes(normalizeForMatch(cond[c]), normalizeForMatch(keywords[k]))

profileHasMed(profile, med) ==
    LET meds == IF profile = Undefined THEN <<>> ELSE profile[1].currentMeds
    IN  \E m \in 1..Len(meds) :
            includes(normalizeForMatch(meds[m]), normalizeForMatch(med))

\* The search without normalizeForMatch: letter case and spacing count.
anyOtherMedMentioned_Raw(snapshot, otherMeds) ==
    LET Hit(med) == med # "" /\ includes(snapshot.sections.drugInteractions, med)
    IN  SelectSeq(otherMeds, Hit)

\* The interaction check that wants every medication of the list mentioned.
anyOtherMedMentionedInInteractions_Every(snapshot, otherMeds) ==
    LET Mentioned(interactions, m) == m # "" /\ includes(interactions, m)
        Hit(med) == Mentioned(normalizeForMatch(snapshot.sections.drugInteractions),
                              normalizeForMatch(med))
    IN  IF \A i \in 1..Len(otherMeds) : Hit(otherMeds[i]) THEN otherMeds ELSE <<>>

anyOtherMedMentionedInInteractions(snapshot, otherMeds) ==
    LET Mentioned(interactions, m) == m # "" /\ includes(interactions, m)
        Hit(med) == Mentioned(normalizeForMatch(snapshot.sections.drugInteractions),
                              normalizeForMatch(med))
    IN  SelectSeq(otherMeds, Hit)

quoteAroundSubstring(haystack, needle) ==
    LET Quote(around) == IF around # "" THEN Some(around) ELSE Undefined
        Raw(rawIdx) ==
            Quote(chunkTextAround(haystack, IF rawIdx >= 0 THEN rawIdx ELSE 0, QuoteRadius))
        Find(h, n) == IF indexOf(h, n) < 0 THEN Undefined
                      ELSE Raw(indexOf(toLowerCase(haystack), n))
    IN  Find(normalizeForMatch(haystack), normalizeForMatch(needle))

QuoteSection(rule) == IF rule.section = "CANONICAL" THEN "LABEL" ELSE rule.section

\* One pass of the loop over BASE_RULES.
ApplyRule(acc, rule, snapshot, profile) ==
    LET Push(quote) ==
            [rulesTriggered |-> Append(acc.rulesTriggered, rule.id),
             risk |-> bumpRisk(acc.risk, rule.severity),
             quotes |-> IF quote # Undefined
                        THEN Append(acc.quotes,
                                    [section |-> QuoteSection(rule),
                                     quote |-> quote[1], reason |-> rule.reason])
                        ELSE acc.quotes]
        Apply(sectionText) ==
            IF sectionText = "" THEN acc
            ELSE IF ~Test(sectionText, rule.pattern) THEN acc
            ELSE IF rule.id = "PREGNANCY_RISK_LANGUAGE" /\ ~profileHasPregnancy(profile)
                 THEN acc
            ELSE Push(extractQuote(sectionText, rule.pattern))
    IN  Apply(getSectionText(snapshot, rule.section))

RECURSIVE BaseRules(_, _, _)
\* The state of the loop after the first k rules.
BaseRules(k, snapshot, profile) ==
    IF k = 0 THEN [rulesTriggered |-> <<>>, risk |-> "UNKNOWN", quotes |-> <<>>]
    ELSE ApplyRule(BaseRules(k - 1, snapshot, profile), BASE_RULES[k], snapshot, profile)

Contains(seq, v) == \E i \in 1..Len(seq) : seq[i] = v

\* The two upgrades made whether or not the base rule has fired.
ProfileUpgrades_Unchecked(acc, profile) ==
    LET Upgrade(a, id) ==
            [a EXCEPT !.risk = bumpRisk(a.risk, "HIGH"),
                      !.rulesTriggered = Append(a.rulesTriggered, id)]
        Ckd(a) ==
            IF profileHasCondition(profile, <<"ckd", "kidney", "renal">>)
            THEN Upgrade(a, "PROFILE_CKD_UPGRADE")
            ELSE a
    IN  Ckd(IF \E med \in {"warfarin", "apixaban", "rivaroxaban", "dabigatran"} :
                  profileHasMed(profile, med)
            THEN Upgrade(acc, "PROFILE_ANTICOAGULANT_UPGRADE")
            ELSE acc)

\* The two profile-aware upgrades.
ProfileUpgrades(acc, profile) ==
    LET Upgrade(a, rule, id) ==
            IF Contains(a.rulesTriggered, rule)
            THEN [a EXCEPT !.risk = bumpRisk(a.risk, "HIGH"),
                           !.rulesTriggered = Append(a.rulesTriggered, id)]
            ELSE a
        Ckd(a) ==
            IF profileHasCondition(profile, <<"ckd", "kidney", "renal">>)
            THEN Upgrade(a, "RENAL_RISK_LANGUAGE", "PROFILE_CKD_UPGRADE")
            ELSE a
    IN  Ckd(IF \E med \in {"warfarin", "apixaban", "rivaroxaban", "dabigatran"} :
                  profileHasMed(profile, med)
            THEN Upgrade(acc, "BLEEDING_RISK_LANGUAGE", "PROFILE_ANTICOAGULANT_UPGRADE")
            ELSE acc)

RECURSIVE HitQuotes(_, _)
\* The quotes of the loop over the first hits, in order.
HitQuotes(snapshot, hits) ==
    IF Len(hits) = 0 THEN <<>>
    ELSE LET hit == hits[Len(hits)]
             Push(before, q) ==
                 IF q # Undefined
                 THEN Append(before,
                             [section |-> "drugInteractions", quote |-> q[1],
                              reason |-> "The interaction section mentions \"" \o hit
                                         \o "\"."])
                 ELSE before
         IN  Push(HitQuotes(snapshot, SubSeq(hits, 1, Len(hits) - 1)),
                  quoteAroundSubstring(snapshot.sections.drugInteractions, hit))

\* The cross-check of otherMeds against the interaction section.
InteractionCheck(acc, snapshot, otherMeds) ==
    LET NonEmpty(m) == m # ""
        Record(interactionHits) ==
            IF Len(interactionHits) > 0
            THEN [rulesTriggered |-> Append(acc.rulesTriggered,
                                            "INTERACTION_OTHER_MED_MENTIONED"),
                  risk |-> bumpRisk(acc.risk, "HIGH"),
                  quotes |-> acc.quotes \o
                             HitQuotes(snapshot, SubSeq(interactionHits, 1,
                                                        Min(3, Len(interactionHits))))]
            ELSE acc
        Check(meds) ==
            Record(IF Len(meds) > 0 THEN anyOtherMedMentionedInInteractions(snapshot, meds)
                   ELSE <<>>)
    IN  Check(SelectSeq(OrElse(otherMeds, <<>>), NonEmpty))

Ellipsis == "~"

NoEvidenceQuestion ==
    "I could not retrieve the FDA label evidence for this medication. Can you provide the exact product name (and strength) from the package?"
MoreContextQuestion ==
    "To check safety, I need more context (dose/formulation, your conditions, and other meds). What exact product are you using (including strength), and are you taking any other medications?"

\* The mapping with a first test that is always true: `risk === 'HIGH' ||
\* 'MODERATE'`.
DecisionMapping_AlwaysBlock(snapshot, risk) ==
    IF snapshot.evidenceText = ""
    THEN [decision |-> "CLARIFY", risk |-> "UNKNOWN",
          clarifyingQuestion |-> Some(NoEvidenceQuestion)]
    ELSE [decision |-> "BLOCK", risk |-> risk, clarifyingQuestion |-> Undefined]

\* The mapping without the test of the evidence text.
DecisionMapping_EvidenceUnchecked(snapshot, risk) ==
    IF risk = "HIGH"
    THEN [decision |-> "BLOCK", risk |-> risk, clarifyingQuestion |-> Undefined]
    ELSE IF risk = "MODERATE"
    THEN [decision |-> "CAUTION", risk |-> risk, clarifyingQuestion |-> Undefined]
    ELSE IF risk = "LOW"
    THEN [decision |-> "INFO", risk |-> risk, clarifyingQuestion |-> Undefined]
    ELSE [decision |-> "CLARIFY", risk |-> risk,
          clarifyingQuestion |-> Some(MoreContextQuestion)]

\* The decision, the final risk and the clarifying question.
DecisionMapping(snapshot, risk) ==
    IF snapshot.evidenceText = ""
    THEN [decision |-> "CLARIFY", risk |-> "UNKNOWN",
          clarifyingQuestion |-> Some(NoEvidenceQuestion)]
    ELSE IF risk = "HIGH"
    THEN [decision |-> "BLOCK", risk |-> risk, clarifyingQuestion |-> Undefined]
    ELSE IF risk = "MODERATE"
    THEN [decision |-> "CAUTION", risk |-> risk, clarifyingQuestion |-> Undefined]
    ELSE IF risk = "LOW"
    THEN [decision |-> "INFO", risk |-> risk, clarifyingQuestion |-> Undefined]
    ELSE [decision |-> "CLARIFY", risk |-> risk,
          clarifyingQuestion |-> Some(MoreContextQuestion)]

\* The preview quote pushed when a BLOCK or CAUTION has no quote.
FallbackQuote(snapshot) ==
    [section |-> "LABEL",
     quote |-> slice(snapshot.evidenceText, 0, Min(280, Len(snapshot.evidenceText)))
               \o (IF Len(snapshot.evidenceText) > 280 THEN Ellipsis ELSE ""),
     reason |-> "Label evidence snapshot (preview)."]

evaluatePolicy(snapshot, profile, otherMeds) ==
    LET Result(acc, d) ==
            [decision |-> d.decision, risk |-> d.risk,
             rulesTriggered |-> acc.rulesTriggered,
             clarifyingQuestion |-> d.clarifyingQuestion,
             quotes |-> IF d.decision \in {"BLOCK", "CAUTION"} /\ Len(acc.quotes) = 0
                        THEN Append(acc.quotes, FallbackQuote(snapshot))
                        ELSE acc.quotes]
        Decide(acc) == Result(acc, DecisionMapping(snapshot, acc.risk))
    IN  Decide(InteractionCheck(ProfileUpgrades(BaseRules(Len(BASE_RULES), snapshot, profile),
                                                profile),
                                snapshot, otherMeds))

(***************************************************************************)
(* openfda.ts                                                              *)
(***************************************************************************)
sanitizeTerm(term) ==
    LET a == safeOneLine(term)
    IN  trim(FilterRange(a, {"\"", "\\"}, FALSE, 1, Len(a)))

IsDigits(s) == Len(s) > 0 /\ \A i \in 1..Len(s) : Char(s, i) \in CharsOf(Digits)

DigitValue(c) == (CHOOSE i \in 1..10 : Char(Digits, i) = c) - 1

RECURSIVE DecimalValue(_)
DecimalValue(s) ==
    IF Len(s) = 0 THEN 0
    ELSE 10 * DecimalValue(SubSeq(s, 1, Len(s) - 1)) + DigitValue(Char(s, Len(s)))

\* Number(effectiveTime) when finite, else 0.  The effective times of the
\* model are strings of digits (YYYYMMDD) or words without a digit: Number
\* trims white space, reads the first as decimal and the second as NaN.
effectiveTimeToNumber(effectiveTime) ==
    LET t == trim(OrElse(effectiveTime, ""))
    IN  IF IsDigits(t) THEN DecimalValue(t) ELSE 0

\* The collation rank of a character of an identifier: punctuation, then
\* digits, then letters without regard to case.
CollationOrder == "_-0123456789abcdefghijklmnopqrstuvwxyz"

Rank(c) == CHOOSE i \in 1..Len(CollationOrder) : Char(CollationOrder, i) = LowerChar(c)

RECURSIVE CompareSeq(_, _, _)
\* Lexicographic comparison of two sequences of numbers from position i:
\* -1, 0 or 1.
CompareSeq(a, b, i) ==
    IF i > Len(a) /\ i > Len(b) THEN 0
    ELSE IF i > Len(a) THEN -1
    ELSE IF i > Len(b) THEN 1
    ELSE IF a[i] < b[i] THEN -1
    ELSE IF a[i] > b[i] THEN 1
    ELSE CompareSeq(a, b, i + 1)

Keys(s, Key(_)) == [i \in 1..Len(s) |-> Key(Char(s, i))]

\* Lower case sorts before upper case when the letters are the same.
CaseRank(c) == IF c \in CharsOf(UpperLetters) THEN 1 ELSE 0

\* String.prototype.localeCompare on identifiers (letters, digits, hyphen,
\* underscore): by letters and digits first, by case on a tie.
localeCompare(a, b) ==
    LET primary == CompareSeq(Keys(a, Rank), Keys(b, Rank), 1)
    IN  IF primary # 0 THEN primary
        ELSE CompareSeq(Keys(a, CaseRank), Keys(b, CaseRank), 1)

RecordId(r) == IF r.id # Undefined THEN r.id[1] ELSE OrElse(r.set_id, "")

\* The comparator without the tie-break by identifier.
CompareRecords_NoTieBreak(a, b) ==
    effectiveTimeToNumber(b.effective_time) - effectiveTimeToNumber(a.effective_time)

\* The comparator of the sort: negative when a sorts before b.
CompareRecords(a, b) ==
    LET ta == effectiveTimeToNumber(a.effective_time)
        tb == effectiveTimeToNumber(b.effective_time)
    IN  IF tb # ta THEN tb - ta ELSE localeCompare(RecordId(a), RecordId(b))

RECURSIVE InsertSorted(_, _)
\* r put into a sorted list, after the records that do not sort after it.
InsertSorted(sorted, r) ==
    IF Len(sorted) = 0 THEN <<r>>
    ELSE IF CompareRecords(Head(sorted), r) <= 0
         THEN <<Head(sorted)>> \o InsertSorted(Tail(sorted), r)
    ELSE <<r>> \o sorted

RECURSIVE SortRecords(_)
\* Array.prototype.sort with CompareRecords: a stable sort.
SortRecords(records) ==
    IF Len(records) = 0 THEN <<>>
    ELSE InsertSorted(SortRecords(SubSeq(records, 1, Len(records) - 1)),
                      records[Len(records)])

\* The chosen record, or Undefined for an empty list.
chooseDeterministicRecord(records) ==
    IF Len(records) = 0 THEN Undefined ELSE Some(SortRecords(records)[1])

\* The characters of the ingredient texts of the model, by UTF-16 code unit.
CodeUnitOrder == " (),-./0123456789:;ABCDEFGHIJKLMNOPQRSTUVWXYZ_abcdefghijklmnopqrstuvwxyz|"

CodeUnit(c) == CHOOSE i \in 1..Len(CodeUnitOrder) : Char(CodeUnitOrder, i) = c

\* Comparison by UTF-16 code unit, the order of Array.prototype.sort().
CompareUnits(a, b) == CompareSeq(Keys(a, CodeUnit), Keys(b, CodeUnit), 1)

RECURSIVE InsertString(_, _)
InsertString(sorted, s) ==
    IF Len(sorted) = 0 THEN <<s>>
    ELSE IF CompareUnits(Head(sorted), s) <= 0
         THEN <<Head(sorted)>> \o InsertString(Tail(sorted), s)
    ELSE <<s>> \o sorted

RECURSIVE SortStrings(_)
SortStrings(list) ==
    IF Len(list) = 0 THEN <<>>
    ELSE InsertString(SortStrings(SubSeq(list, 1, Len(list) - 1)), list[Len(list)])

normalizedActiveIngredientList(r) ==
    LET Lowered(s) == toLowerCase(safeOneLine(s))
        NonEmpty(s) == s # ""
    IN  SortStrings(SelectSeq(Map(r.active_ingredient, Lowered), NonEmpty))

\* The grouping key of a candidate.
aiKey(r) == Join(normalizedActiveIngredientList(r), " | ")

detectAmbiguity(records) ==
    LET options == [i \in 1..Len(records) |->
                      [record |-> records[i], aiKey |-> aiKey(records[i])]]
        unique == {options[i].aiKey : i \in 1..Len(options)}
    IN  [ambiguous |-> Cardinality(unique) > 1 /\ Len(records) > 1,
         options |-> options]

(***************************************************************************)
(* The label records the label source can return.                          *)
(***************************************************************************)
IBU ==
    [NoRecord EXCEPT
        !.id = Some("a1f0"), !.set_id = Some("5e2c"),
        !.effective_time = Some("20240105"),
        !.brand_name = <<"Advil">>, !.generic_name = <<"Ibuprofen">>,
        !.active_ingredient = <<"Ibuprofen 200 mg">>,
        !.warnings = <<"Stomach bleeding warning: this product contains an NSAID.">>,
        !.drug_interactions = <<"Avoid concomitant use with Warfarin.">>,
        !.pregnancy = <<"May cause fetal harm.">>,
        !.ask_doctor = <<"you have kidney disease">>]

\* An older version of the same label.
IBU_OLD ==
    [IBU EXCEPT !.id = Some("09bb"), !.effective_time = Some("20230101"),
                !.warnings = <<"Stomach bleeding warning.">>]

\* Other labels of the same ingredient: the same day as IBU, and undated.
IBU_TWIN ==
    [IBU EXCEPT !.id = Some("A1f0"), !.set_id = Some("7d11"),
                !.brand_name = <<"Motrin">>,
                !.active_ingredient = <<"IBUPROFEN 200 MG", "">>,
                !.drug_interactions = <<"Ask before use with WARFARIN\nor aspirin.">>]

IBU_UNDATED ==
    [IBU EXCEPT !.id = Undefined, !.set_id = Some("0c3d"),
                !.effective_time = Some("n/a")]

\* Two formulations of another product: two ingredients, and the same two
\* written as one entry.
COMBO ==
    [NoRecord EXCEPT
        !.id = Some("c7aa"), !.set_id = Some("91b4"),
        !.effective_time = Some("20240105"),
        !.brand_name = <<"Advil PM">>,
        !.active_ingredient = <<"Ibuprofen 200 mg", "Diphenhydramine citrate 38 mg">>,
        !.contraindications = <<"Do not use in children under 12.">>]

COMBO_ONE_ENTRY ==
    [COMBO EXCEPT
        !.id = Some("c7ab"), !.set_id = Some("91b5"),
        !.active_ingredient = <<"Diphenhydramine citrate 38 mg | Ibuprofen 200 mg">>]

\* A label no rule matches.
SALINE ==
    [NoRecord EXCEPT
        !.id = Some("e301"), !.set_id = Some("33a0"),
        !.effective_time = Some("20220310"),
        !.brand_name = <<"Saline">>, !.generic_name = <<"Sodium chloride">>,
        !.active_ingredient = <<"Sodium chloride">>]

\* The same label version with a section above the inline limit.
SALINE_LONG == [SALINE EXCEPT !.id = Some("e302"), !.ask_doctor = <<Filler>>]

\* A label with a boxed warning.
MTX ==
    [NoRecord EXCEPT
        !.id = Some("b820"), !.set_id = Some("44f1"),
        !.effective_time = Some("20231130"),
        !.generic_name = <<"Methotrexate">>,
        !.active_ingredient = <<"Methotrexate">>,
        !.boxed_warning = <<"WARNING: SEVERE TOXIC REACTIONS">>,
        !.pregnancy = <<"Can cause embryo-fetal toxicity.">>]

PADDED ==
    [NoRecord EXCEPT
        !.id = Some("d4e5"), !.set_id = Some("66c2"),
        !.effective_time = Some("20210901"),
        !.brand_name = <<"Mucinex">>,
        !.active_ingredient = <<"Guaifenesin">>,
        !.drug_interactions =
            [i \in 1..QuoteRadius |-> ""] \o <<"Use with blood  thinners needs care.">>]

\* A label whose interaction section names blood thinners with two spaces,
\* further from its start than a quote reaches.
WORDY ==
    [NoRecord EXCEPT
        !.id = Some("f6a7"), !.set_id = Some("77d3"),
        !.effective_time = Some("20220601"),
        !.brand_name = <<"Robitussin">>,
        !.active_ingredient = <<"Dextromethorphan">>,
        !.drug_interactions =
            <<Rep("Ask a doctor before use. ", 10), "Use with blood  thinners needs care.">>]

(***************************************************************************)
(* labelCache.ts                                                           *)
(***************************************************************************)
\* A map: a function whose domain is the set of its keys.
EmptyMap == <<>>
Has(m, k) == k \in DOMAIN m
Put(m, k, v) == [x \in DOMAIN m \cup {k} |-> IF x = k THEN v ELSE m[x]]

makeLabelDocId(snapshot) == snapshot.setId \o "_" \o snapshot.effectiveTime

StoragePath(docId) == "rxguard/labels/" \o docId \o ".txt"

\* Whether upsertSnapshot sends the evidence text to the blob store.
Oversized(snapshot) == bytesUtf8(snapshot.evidenceText) > MAX_FIRESTORE_DOC_BYTES

\* The fields docRef.set writes for a snapshot; an absent optional field is
\* Undefined.  (updatedAt and source are left out: nothing reads them.)
LabelDocData(snapshot) ==
    [setId |-> snapshot.setId,
     effectiveTime |-> snapshot.effectiveTime,
     evidenceHash |-> snapshot.evidenceHash,
     evidenceText |-> IF ~Oversized(snapshot) /\ snapshot.evidenceText # ""
                      THEN Some(snapshot.evidenceText) ELSE Undefined,
     evidenceStoragePath |-> IF Oversized(snapshot)
                             THEN Some(StoragePath(makeLabelDocId(snapshot)))
                             ELSE Undefined,
     sections |-> snapshot.sections,
     brandNames |-> snapshot.brandNames,
     genericNames |-> snapshot.genericNames,
     activeIngredientsList |-> snapshot.activeIngredientsList]

\* set(data, {merge: true}): the fields of data replace those of the stored
\* document, the fields data lacks stay.
MergeDoc(docs, id, data) ==
    IF ~Has(docs, id) THEN Put(docs, id, data)
    ELSE Put(docs, id,
             [data EXCEPT
                !.evidenceText = IF data.evidenceText # Undefined
                                 THEN data.evidenceText ELSE docs[id].evidenceText,
                !.evidenceStoragePath = IF data.evidenceStoragePath # Undefined
                                        THEN data.evidenceStoragePath
                                        ELSE docs[id].evidenceStoragePath])

\* The snapshot getSnapshotByDocId makes of a stored document and its text.
SnapshotOfDoc(data, evidenceText) ==
    [setId |-> data.setId,
     effectiveTime |-> data.effectiveTime,
     evidenceHash |-> data.evidenceHash,
     evidenceText |-> evidenceText,
     sections |-> data.sections,
     brandNames |-> data.brandNames,
     genericNames |-> data.genericNames,
     activeIngredientsList |-> data.activeIngredientsList]

toOption(r) ==
    [brandNames |-> r.brand_name, genericNames |-> r.generic_name,
     activeIngredients |-> r.active_ingredient,
     setId |-> r.set_id, effectiveTime |-> r.effective_time]

\* The options of an ambiguous outcome.
AmbiguousOptions(amb) ==
    LET first == SubSeq(amb.options, 1, Min(5, Len(amb.options)))
    IN  [i \in 1..Len(first) |-> toOption(first[i].record)]

(***************************************************************************)
(* rxguard.ts                                                              *)
(***************************************************************************)
disclaimer ==
    "Educational use only. RxGuard is NOT medical advice and cannot confirm safety. "
    \o "Always consult a licensed clinician or pharmacist for medication decisions."

\* `(${i}) [${q.section}] ${q.quote}` for the first three quotes.  The
\* numbers of the list are the digits 1 to 3.
QuoteLines(quotes) ==
    LET first == SubSeq(quotes, 1, Min(3, Len(quotes)))
    IN  Join([i \in 1..Len(first) |->
                "(" \o Char(Digits, i + 1) \o ") [" \o first[i].section \o "] "
                \o first[i].quote], "\n")

\* The typographic quotation marks of the messages are written '.
buildCoreMessage(decision, risk, primaryDrug, quotes, clarifyingQuestion) ==
    LET qText == QuoteLines(quotes)
    IN  IF decision = "CLARIFY"
        THEN "RxGuard needs clarification before it can evaluate '" \o primaryDrug \o "'.\n"
             \o (IF OrElse(clarifyingQuestion, "") # ""
                 THEN "\nQuestion: " \o clarifyingQuestion[1] \o "\n" ELSE "")
             \o "\n" \o disclaimer
        ELSE IF decision = "BLOCK"
        THEN "RxGuard BLOCKED the request (risk: " \o risk \o ") for '" \o primaryDrug
             \o "' based on FDA label evidence.\n"
             \o "\nEvidence snippets (verbatim):\n" \o qText \o "\n"
             \o "\n" \o disclaimer
        ELSE IF decision = "CAUTION"
        THEN "RxGuard flags CAUTION (risk: " \o risk \o ") for '" \o primaryDrug
             \o "' based on FDA label evidence.\n"
             \o "\nEvidence snippets (verbatim):\n" \o qText \o "\n"
             \o "\n" \o disclaimer
        ELSE "RxGuard found no high-severity matches in the FDA label snapshot for '"
             \o primaryDrug \o "' given the info provided.\n"
             \o "This does NOT mean it is safe. Review the label and consult a clinician/pharmacist.\n"
             \o (IF qText # "" THEN "\nEvidence snippets (verbatim):\n" \o qText \o "\n" ELSE "")
             \o "\n" \o disclaimer

\* The proof card without the verification of the quotes.
buildProofCard_Unfiltered(setId, effectiveTime, evidenceHash, evidenceText, quotes) ==
    [source |-> "openFDA", setId |-> setId, effectiveTime |-> effectiveTime,
     evidenceHash |-> evidenceHash, quotes |-> quotes]

buildProofCard(setId, effectiveTime, evidenceHash, evidenceText, quotes) ==
    LET Verified(q) == quoteExistsInEvidence(evidenceText, q.quote)
    IN  [source |-> "openFDA", setId |-> setId, effectiveTime |-> effectiveTime,
         evidenceHash |-> evidenceHash, quotes |-> SelectSeq(quotes, Verified)]

\* The response to a request without a primary drug.
MissingDrugResponse ==
    [decision |-> "CLARIFY", risk |-> "UNKNOWN",
     message |-> "RxGuard needs the exact medication name from the package to look up the correct FDA label.\n"
                 \o "Please enter the medication name (and ideally strength/dose).\n\n"
                 \o disclaimer,
     clarifyingQuestion |-> Some("What exact medication name (and strength) is on the package?"),
     proofCard |-> Undefined,
     naked |-> Undefined,
     debug |-> [primaryDrugResolved |-> Undefined,
                rulesTriggered |-> <<"MISSING_PRIMARY_DRUG">>,
                labelDocId |-> Undefined]]

\* The response to a not_found resolution with a message that stops after
\* the advice.
NotFoundResponse_NoDisclaimer(primaryDrug) ==
    [decision |-> "CLARIFY", risk |-> "UNKNOWN",
     message |-> "RxGuard could not find an FDA drug label match for '" \o primaryDrug \o "'.\n"
                 \o "Try the generic name, or the exact product name from the bottle/box.\n\n",
     clarifyingQuestion |-> Some("Can you provide the exact product name (and strength) from the package?"),
     proofCard |-> Undefined,
     naked |-> Undefined,
     debug |-> [primaryDrugResolved |-> Undefined,
                rulesTriggered |-> <<"LABEL_NOT_FOUND">>,
                labelDocId |-> Undefined]]

\* The response to a not_found resolution, before the baseline answers.
NotFoundResponse(primaryDrug) ==
    [decision |-> "CLARIFY", risk |-> "UNKNOWN",
     message |-> "RxGuard could not find an FDA drug label match for '" \o primaryDrug \o "'.\n"
                 \o "Try the generic name, or the exact product name from the bottle/box.\n\n"
                 \o disclaimer,
     clarifyingQuestion |-> Some("Can you provide the exact product name (and strength) from the package?"),
     proofCard |-> Undefined,
     naked |-> Undefined,
     debug |-> [primaryDrugResolved |-> Undefined,
                rulesTriggered |-> <<"LABEL_NOT_FOUND">>,
                labelDocId |-> Undefined]]

OptionLine(o, i) ==
    LET name == IF Len(o.brandNames) > 0 THEN o.brandNames[1]
                ELSE IF Len(o.genericNames) > 0 THEN o.genericNames[1]
                ELSE "Unknown"
        ai == Join(o.activeIngredients, "; ")
    IN  Char(Digits, i + 1) \o ") " \o name \o " - Active ingredients: "
        \o (IF ai # "" THEN ai ELSE "unknown")

\* The response to an ambiguous resolution, before the baseline answers.
AmbiguousResponse(primaryDrug, resolution) ==
    LET options == SubSeq(resolution.options, 1, Min(4, Len(resolution.options)))
        optText == Join([i \in 1..Len(options) |-> OptionLine(options[i], i)], "\n")
    IN  [decision |-> "CLARIFY", risk |-> "UNKNOWN",
         message |-> "Multiple different FDA label records matched '" \o primaryDrug \o "'.\n"
                     \o "To avoid mixing up formulations, RxGuard needs you to pick one.\n\n"
                     \o optText \o "\n\n" \o disclaimer,
         clarifyingQuestion |-> Some("Which formulation is yours (active ingredients + strength)?"),
         proofCard |-> Undefined,
         naked |-> Undefined,
         debug |-> [primaryDrugResolved |-> Undefined,
                    rulesTriggered |-> <<"LABEL_AMBIGUOUS">>,
                    labelDocId |-> Undefined]]

\* The response to an ok resolution, before the baseline answers: the
\* policy gate, the proof card and the message.
GatedResponse(input, primaryDrug, snapshot) ==
    LET Response(policy, proofCard) ==
            [decision |-> policy.decision, risk |-> policy.risk,
             message |-> buildCoreMessage(policy.decision, policy.risk, primaryDrug,
                                          proofCard.quotes, policy.clarifyingQuestion),
             clarifyingQuestion |-> policy.clarifyingQuestion,
             proofCard |-> Some(proofCard),
             naked |-> Undefined,
             debug |-> [primaryDrugResolved |-> Some(primaryDrug),
                        rulesTriggered |-> policy.rulesTriggered,
                        labelDocId |-> Some(snapshot.setId \o "_" \o snapshot.effectiveTime)]]
        Proved(policy) ==
            Response(policy, buildProofCard(snapshot.setId, snapshot.effectiveTime,
                                            snapshot.evidenceHash, snapshot.evidenceText,
                                            policy.quotes))
    IN  Proved(evaluatePolicy(snapshot, input.profile, input.otherMeds))

\* The outcomes of one baseline chat call: an answer, an error, or the abort
\* by the timer of the call (llmClient.ts:83); maybeGetNakedAnswers turns the
\* last two into a diagnostic string.
ChatOutcomes == {"answer", "error", "timeout"}

MistralText(outcome) ==
    IF outcome = "answer" THEN "Yes, that is fine."
    ELSE IF outcome = "error" THEN "[Mistral error] Error: LLM HTTP 500: "
    ELSE "[Mistral error] AbortError: This operation was aborted"
LlamaText(outcome) ==
    IF outcome = "answer" THEN "It should be safe."
    ELSE IF outcome = "error" THEN "[Llama error] Error: LLM HTTP 500: "
    ELSE "[Llama error] AbortError: This operation was aborted"

\* The value of maybeGetNakedAnswers, given the base URL of the environment
\* and the outcome of each chat call it makes.
maybeGetNakedAnswers(input, baseUrl, mistral, llama) ==
    LET want == OrElse(input.nakedModel, "both")
    IN  IF ~input.includeNakedModelAnswer THEN Undefined
        ELSE IF OrElse(baseUrl, "") = ""
        THEN Some([mistral7b |-> Some("[RXGUARD_LLM_BASE_URL not set]"),
                   llama3_8b |-> Some("[RXGUARD_LLM_BASE_URL not set]")])
        ELSE Some([mistral7b |-> IF want \in {"mistral-7b", "both"}
                                 THEN Some(MistralText(mistral)) ELSE Undefined,
                   llama3_8b |-> IF want \in {"llama3-8b", "both"}
                                 THEN Some(LlamaText(llama)) ELSE Undefined])

\* Whether maybeGetNakedAnswers calls the baseline collaborator.
CallsBaseline(input, baseUrl) ==
    input.includeNakedModelAnswer /\ OrElse(baseUrl, "") # ""

(***************************************************************************)
(* The environment: what the label source answers and what clients ask.    *)
(***************************************************************************)
Ok(results) == [status |-> 200, results |-> results]
NotFound404 == [status |-> 404, results |-> <<>>]
ServerError == [status |-> 500, results |-> <<>>]

\* The ibuprofen label with its ingredient entered twice.
IBU_DOUBLED ==
    [IBU EXCEPT !.id = Some("9f1d"),
                !.active_ingredient = <<"IBUPROFEN 200 MG", "Ibuprofen 200 mg">>]

\* A label without effective_time.
UNPINNED == [SALINE EXCEPT !.id = Some("e3ff"), !.effective_time = Undefined]

\* Five labels of the combination product, as many as options are returned.
COMBO_LOTS == [i \in 1..5 |-> [COMBO EXCEPT !.id = Some("c7b" \o Char(Digits, i + 1))]]

\* The answers the label source can give to a search term.  It may answer
\* the same term differently from one call to the next.
LabelSource(term) ==
    LET Catalog(t) ==
            IF t = "advil"
            THEN {Ok(<<IBU_OLD, IBU_UNDATED, IBU_TWIN, IBU>>), Ok(<<IBU, COMBO>>),
                  NotFound404, ServerError}
            ELSE IF t = "advil pm"
            THEN {Ok(<<COMBO, COMBO_ONE_ENTRY>>), Ok(COMBO_LOTS \o <<IBU>>)}
            ELSE IF t = "saline" THEN {Ok(<<SALINE>>)}
            ELSE IF t = "zzz" THEN {NotFound404, Ok(<<>>), Ok(<<UNPINNED>>)}
            ELSE IF t = "sodium chloride" THEN {Ok(<<SALINE_LONG>>)}
            ELSE IF t = "mucinex" THEN {Ok(<<PADDED>>)}
            ELSE IF t = "motrin" THEN {Ok(<<IBU>>), Ok(<<IBU, IBU_DOUBLED>>)}
            ELSE IF t = "ibuprofen" THEN {Ok(<<IBU>>)}
            ELSE {NotFound404, Ok(<<>>)}
    IN  Catalog(toLowerCase(term))

OnWarfarin ==
    Some([pregnancy |-> Some("pregnant_t2"), conditions |-> <<"CKD stage 3">>,
          currentMeds |-> <<"Warfarin">>])

NoInput ==
    [question |-> "Is it safe?", primaryDrug |-> Undefined, otherMeds |-> Undefined,
     profile |-> Undefined, includeNakedModelAnswer |-> FALSE, nakedModel |-> Undefined]

\* Requests without a primary drug, with every other field both ways.
DruglessRequests ==
    {[NoInput EXCEPT !.primaryDrug = d, !.otherMeds = m, !.profile = pr,
                     !.includeNakedModelAnswer = b]
        : d \in {Undefined, Some(""), Some(" \n")},
          m \in {Undefined, Some(<<"Warfarin">>)},
          pr \in {Undefined, OnWarfarin},
          b \in BOOLEAN}

\* The families of products the clients of one run ask about.
Scenarios == {"advil", "advil pm", "saline", "mucinex", "motrin", "blank"}

DrugRequests(s) ==
    IF s = "advil"
    THEN {[NoInput EXCEPT !.primaryDrug = Some("Advil")],
          [NoInput EXCEPT !.primaryDrug = Some(" ADVIL "),
                          !.otherMeds = Some(<<"Warfarin">>), !.profile = OnWarfarin,
                          !.includeNakedModelAnswer = TRUE]}
    ELSE IF s = "advil pm"
    THEN {[NoInput EXCEPT !.primaryDrug = Some("Advil PM")],
          [NoInput EXCEPT !.primaryDrug = Some("Zzz"), !.includeNakedModelAnswer = TRUE,
                          !.nakedModel = Some("mistral-7b")]}
    ELSE IF s = "saline"
    THEN {[NoInput EXCEPT !.primaryDrug = Some("Saline"), !.profile = OnWarfarin],
          [NoInput EXCEPT !.primaryDrug = Some("Sodium chloride")]}
    ELSE IF s = "mucinex"
    THEN {[NoInput EXCEPT !.primaryDrug = Some("Mucinex"),
                          !.otherMeds = Some(<<"", "Blood thinners">>)]}
    ELSE IF s = "motrin"
    THEN {[NoInput EXCEPT !.primaryDrug = Some("Motrin")],
          [NoInput EXCEPT !.primaryDrug = Some("Ibuprofen"),
                          !.includeNakedModelAnswer = TRUE,
                          !.nakedModel = Some("llama3-8b")]}
    ELSE {[NoInput EXCEPT !.primaryDrug = Some("Saline")]}

\* The requests of a family; the requests without a drug go with "blank".
Requests(s) == IF s = "blank" THEN DruglessRequests \cup DrugRequests(s)
               ELSE DrugRequests(s)

\* Every answer the label source gives in the model.
Answers ==
    UNION {LabelSource(t) : t \in {"advil", "advil pm", "saline", "sodium chloride",
                                   "mucinex", "motrin", "zzz"}}

(***************************************************************************)
(* The state                                                               *)
(***************************************************************************)
VARIABLES
    memDrugToDocId,      \* in-process cache: normalized query -> label doc id
    memDocIdToSnapshot,  \* in-process cache: label doc id -> snapshot
    labels,              \* Firestore collection rxguard_labels
    index,               \* Firestore collection rxguard_drug_index
    bucket,              \* the storage bucket: path -> text
    baseUrl,             \* RXGUARD_LLM_BASE_URL of the environment
    scenario,            \* the family of products the clients ask about
    proc,                \* the call of rxguardAnswer in each request slot
    active,              \* the request slots in use
    returned,            \* history: query key -> the snapshot of its first ok resolution
    failures,            \* history: the number of rejected writes so far
    call,                \* the arguments of a function checked on its own
    ret                  \* and its value

vars == <<memDrugToDocId, memDocIdToSnapshot, labels, index, bucket, baseUrl,
          scenario, proc, active, returned, failures, call, ret>>

stores == <<labels, index, bucket>>
mems == <<memDrugToDocId, memDocIdToSnapshot>>

\* The cache tiers: memory, index, primary store, overflow storage.
caches == <<memDrugToDocId, memDocIdToSnapshot, index, labels, bucket>>

Procs == {"p1", "p2"}

\* The two chat calls of maybeGetNakedAnswers: "none" before a call is issued,
\* "inflight" while it is awaited, then its outcome.
NoCalls == [mistral |-> "none", llama |-> "none"]

\* A request slot at rest.  Three fields are history: status is the HTTP
\* status of the label source's answer, known tells that the query key had
\* an ok resolution before this call, and before holds the cache tiers as
\* the call found them, for as long as its resolution can still come out
\* ambiguous.
Idle ==
    [pc |-> "idle", input |-> Undefined, primaryDrug |-> "", key |-> "",
     via |-> "", docId |-> "", data |-> Undefined, records |-> Undefined,
     built |-> Undefined, calls |-> NoCalls, status |-> 0, before |-> Undefined,
     known |-> FALSE,
     resolution |-> Undefined, response |-> Undefined, touched |-> {}]

InitSystem ==
    /\ memDrugToDocId = EmptyMap
    /\ memDocIdToSnapshot = EmptyMap
    /\ labels = EmptyMap
    /\ index = EmptyMap
    /\ bucket = EmptyMap
    /\ baseUrl \in {Undefined, Some("http://localhost:8000")}
    /\ scenario \in Scenarios
    /\ proc = [p \in Procs |-> Idle]
    /\ returned = EmptyMap
    /\ failures = 0
    /\ call = Undefined
    /\ ret = Undefined

Init == InitSystem /\ active = {"p1"}

(***************************************************************************)
(* resolveDrugToPinnedLabel and rxguardAnswer, one action per stretch      *)
(* between two awaits                                                      *)
(***************************************************************************)
OkResolution(snapshot) ==
    [kind |-> "ok", snapshot |-> Some(snapshot), options |-> <<>>]

Resolved(loc, snapshot) ==
    [loc EXCEPT !.pc = "policy", !.before = Undefined,
                !.resolution = Some(OkResolution(snapshot))]

\* What follows getSnapshotByDocId at each of its three call sites: the
\* lookup by the memory cache, by the index, and the reload after an upsert.
AfterGet(loc, result) ==
    CASE loc.via = "mem" ->
            IF result # Undefined THEN Resolved(loc, result[1])
            ELSE [loc EXCEPT !.pc = "readIndex"]
      [] loc.via = "index" ->
            IF result # Undefined THEN Resolved(loc, result[1])
            ELSE [loc EXCEPT !.pc = "fetch"]
      [] loc.via = "reload" ->
            Resolved(loc, IF result # Undefined THEN result[1] ELSE loc.built[1])

\* The index path records the doc id in memory when the snapshot was found.
MemDrugAfterGet(loc, result) ==
    IF loc.via = "index" /\ result # Undefined
    THEN Put(memDrugToDocId, loc.key, loc.docId)
    ELSE memDrugToDocId

\* getSnapshotByDocId up to its first await: a hit in memory returns at
\* once, a miss reads the label document.
StartGet(loc, mem) ==
    IF Has(mem, loc.docId) THEN AfterGet(loc, Some(mem[loc.docId]))
    ELSE [loc EXCEPT !.pc = "readLabel"]

\* The primary drug without the trim.
primaryDrugUntrimmed(input) == OrElse(input.primaryDrug, "")

\* (input.primaryDrug ?? '').trim()
primaryDrugOf(input) == trim(OrElse(input.primaryDrug, ""))

\* rxguardAnswer is called: the check of the primary drug and the lookup of
\* the query in memory.
Request(p, input) ==
    LET Lookup(res) ==
            IF Has(memDrugToDocId, res.key)
            THEN StartGet([res EXCEPT !.via = "mem", !.docId = memDrugToDocId[res.key]],
                          memDocIdToSnapshot)
            ELSE [res EXCEPT !.pc = "readIndex"]
        Start(loc) ==
            IF loc.primaryDrug = ""
            THEN [loc EXCEPT !.pc = "done", !.response = Some(MissingDrugResponse)]
            ELSE Lookup([loc EXCEPT !.key = normalizeForKey(loc.primaryDrug),
                                    !.known = Has(returned, normalizeForKey(loc.primaryDrug)),
                                    !.touched = {"cache"}])
    IN  /\ p \in active
        /\ proc[p].pc = "idle"
        /\ input \in Requests(scenario)
        /\ proc' = [proc EXCEPT ![p] =
              Start([Idle EXCEPT !.input = Some(input),
                                 !.primaryDrug = primaryDrugOf(input),
                                 !.before = Some(caches)])]
        /\ UNCHANGED <<mems, stores, baseUrl, scenario, returned, failures, active, call, ret>>

\* The index document of the query has been read.
ReadIndex(p) ==
    LET loc == proc[p]
        viaIndex == [loc EXCEPT !.via = "index", !.docId = index[loc.key].docId]
    IN  /\ loc.pc = "readIndex"
        /\ IF Has(index, loc.key)
           THEN /\ proc' = [proc EXCEPT ![p] = StartGet(viaIndex, memDocIdToSnapshot)]
                /\ memDrugToDocId' =
                      IF Has(memDocIdToSnapshot, viaIndex.docId)
                      THEN MemDrugAfterGet(viaIndex, Some(memDocIdToSnapshot[viaIndex.docId]))
                      ELSE memDrugToDocId
           ELSE /\ proc' = [proc EXCEPT ![p] = [loc EXCEPT !.pc = "fetch"]]
                /\ UNCHANGED memDrugToDocId
        /\ UNCHANGED <<memDocIdToSnapshot, stores, baseUrl, scenario, returned, failures, active, call, ret>>

\* getSnapshotByDocId: the label document has been read.
ReadLabel(p) ==
    LET loc == proc[p]
        data == labels[loc.docId]
        snapshot == SnapshotOfDoc(data, data.evidenceText[1])
    IN  /\ loc.pc = "readLabel"
        /\ IF ~Has(labels, loc.docId)
           THEN /\ proc' = [proc EXCEPT ![p] = AfterGet(loc, Undefined)]
                /\ UNCHANGED mems
           ELSE IF data.evidenceText # Undefined
           THEN /\ proc' = [proc EXCEPT ![p] = AfterGet(loc, Some(snapshot))]
                /\ memDocIdToSnapshot' = Put(memDocIdToSnapshot, loc.docId, snapshot)
                /\ memDrugToDocId' = MemDrugAfterGet(loc, Some(snapshot))
           ELSE IF data.evidenceStoragePath # Undefined
           THEN /\ proc' = [proc EXCEPT ![p] =
                               [loc EXCEPT !.pc = "readBlob", !.data = Some(data)]]
                /\ UNCHANGED mems
           ELSE /\ proc' = [proc EXCEPT ![p] = AfterGet(loc, Undefined)]
                /\ UNCHANGED mems
        /\ UNCHANGED <<stores, baseUrl, scenario, returned, failures, active, call, ret>>

\* getSnapshotByDocId: the evidence text has been downloaded from storage.
ReadBlob(p) ==
    LET loc == proc[p]
        path == loc.data[1].evidenceStoragePath[1]
        snapshot == SnapshotOfDoc(loc.data[1], bucket[path])
        back == [loc EXCEPT !.data = Undefined]
    IN  /\ loc.pc = "readBlob"
        /\ IF ~Has(bucket, path)
           THEN /\ proc' = [proc EXCEPT ![p] = [back EXCEPT !.pc = "failed"]]
                /\ UNCHANGED mems
           ELSE IF bucket[path] = ""
           THEN /\ proc' = [proc EXCEPT ![p] = AfterGet(back, Undefined)]
                /\ UNCHANGED mems
           ELSE /\ proc' = [proc EXCEPT ![p] = AfterGet(back, Some(snapshot))]
                /\ memDocIdToSnapshot' = Put(memDocIdToSnapshot, loc.docId, snapshot)
                /\ memDrugToDocId' = MemDrugAfterGet(loc, Some(snapshot))
        /\ UNCHANGED <<stores, baseUrl, scenario, returned, failures, active, call, ret>>

\* fetchLabelCandidates with every non-success status read as zero results.
fetchLabelCandidates_Lenient(answer) ==
    IF answer.status < 200 \/ answer.status > 299 THEN Some(<<>>)
    ELSE Some(answer.results)

\* fetchLabelCandidates: the records of an answer of the label source, or
\* Undefined when the call throws.
fetchLabelCandidates(answer) ==
    IF answer.status = 404 THEN Some(<<>>)
    ELSE IF answer.status < 200 \/ answer.status > 299 THEN Undefined
    ELSE Some(answer.results)

\* Fetch with the query recorded in memory as soon as the label source has
\* answered with records, before the ambiguity check.
Fetch_Persisting(p, answer) ==
    LET loc == [proc[p] EXCEPT !.touched = @ \cup {"labelSource"},
                               !.status = answer.status,
                               !.records = fetchLabelCandidates(answer)]
        NotFound ==
            [loc EXCEPT !.pc = "baseline",
                        !.before = Undefined,
                        !.resolution = Some([kind |-> "not_found", snapshot |-> Undefined,
                                             options |-> <<>>]),
                        !.response = Some(NotFoundResponse(loc.primaryDrug))]
        Ambiguous(resolution) ==
            [loc EXCEPT !.pc = "baseline",
                        !.resolution = Some(resolution),
                        !.response = Some(AmbiguousResponse(loc.primaryDrug, resolution))]
        Upsert(snapshot) ==
            [loc EXCEPT !.pc = IF Oversized(snapshot) THEN "writeBlob" ELSE "writeLabel",
                        !.before = Undefined,
                        !.built = Some(snapshot),
                        !.docId = makeLabelDocId(snapshot)]
        Pin(record) ==
            IF record = Undefined THEN NotFound
            ELSE IF MissingIdentity(record[1])
            THEN [loc EXCEPT !.pc = "failed", !.before = Undefined]
            ELSE Upsert(buildLabelSnapshot(record[1]))
        Check(records, amb) ==
            IF Len(records) = 0 THEN NotFound
            ELSE IF amb.ambiguous
            THEN Ambiguous([kind |-> "ambiguous", snapshot |-> Undefined,
                            options |-> AmbiguousOptions(amb)])
            ELSE Pin(chooseDeterministicRecord(records))
        Got(fetched) ==
            IF fetched = Undefined THEN [loc EXCEPT !.pc = "failed", !.before = Undefined]
            ELSE Check(fetched[1], detectAmbiguity(fetched[1]))
    IN  /\ proc[p].pc = "fetch"
        /\ answer \in LabelSource(sanitizeTerm(loc.primaryDrug))
        /\ proc' = [proc EXCEPT ![p] = Got(loc.records)]
        /\ memDrugToDocId' =
              IF loc.records # Undefined /\ Len(loc.records[1]) > 0
              THEN Put(memDrugToDocId, loc.key, RecordId(loc.records[1][1]))
              ELSE memDrugToDocId
        /\ UNCHANGED <<memDocIdToSnapshot, stores, baseUrl, scenario, returned, failures,
                       active, call, ret>>

\* The label source has answered: not_found, ambiguous, or the choice of a
\* record, the snapshot built of it and the start of upsertSnapshot.
Fetch(p, answer) ==
    LET loc == [proc[p] EXCEPT !.touched = @ \cup {"labelSource"},
                               !.status = answer.status,
                               !.records = fetchLabelCandidates(answer)]
        NotFound ==
            [loc EXCEPT !.pc = "baseline",
                        !.before = Undefined,
                        !.resolution = Some([kind |-> "not_found", snapshot |-> Undefined,
                                             options |-> <<>>]),
                        !.response = Some(NotFoundResponse(loc.primaryDrug))]
        Ambiguous(resolution) ==
            [loc EXCEPT !.pc = "baseline",
                        !.resolution = Some(resolution),
                        !.response = Some(AmbiguousResponse(loc.primaryDrug, resolution))]
        Upsert(snapshot) ==
            [loc EXCEPT !.pc = IF Oversized(snapshot) THEN "writeBlob" ELSE "writeLabel",
                        !.before = Undefined,
                        !.built = Some(snapshot),
                        !.docId = makeLabelDocId(snapshot)]
        Pin(record) ==
            IF record = Undefined THEN NotFound
            ELSE IF MissingIdentity(record[1])
            THEN [loc EXCEPT !.pc = "failed", !.before = Undefined]
            ELSE Upsert(buildLabelSnapshot(record[1]))
        Check(records, amb) ==
            IF Len(records) = 0 THEN NotFound
            ELSE IF amb.ambiguous
            THEN Ambiguous([kind |-> "ambiguous", snapshot |-> Undefined,
                            options |-> AmbiguousOptions(amb)])
            ELSE Pin(chooseDeterministicRecord(records))
        Got(fetched) ==
            IF fetched = Undefined THEN [loc EXCEPT !.pc = "failed", !.before = Undefined]
            ELSE Check(fetched[1], detectAmbiguity(fetched[1]))
    IN  /\ proc[p].pc = "fetch"
        /\ answer \in LabelSource(sanitizeTerm(loc.primaryDrug))
        /\ proc' = [proc EXCEPT ![p] = Got(loc.records)]
        /\ UNCHANGED <<mems, stores, baseUrl, scenario, returned, failures, active, call, ret>>

\* upsertSnapshot going on to the label document without the text saved.
WriteBlob_Unsaved(p) ==
    LET loc == proc[p]
    IN  /\ loc.pc = "writeBlob"
        /\ proc' = [proc EXCEPT ![p] = [loc EXCEPT !.pc = "writeLabel"]]
        /\ UNCHANGED <<mems, stores, baseUrl, scenario, returned, failures, active, call, ret>>

\* upsertSnapshot: the evidence text has been saved to storage.
WriteBlob(p) ==
    LET loc == proc[p]
    IN  /\ loc.pc = "writeBlob"
        /\ bucket' = Put(bucket, StoragePath(loc.docId), loc.built[1].evidenceText)
        /\ proc' = [proc EXCEPT ![p] = [loc EXCEPT !.pc = "writeLabel"]]
        /\ UNCHANGED <<mems, labels, index, baseUrl, scenario, returned, failures, active, call, ret>>

\* WriteLabel by create() in place of set(): the write is rejected when the
\* label document exists.
WriteLabel_CreateOnly(p) ==
    LET loc == proc[p]
    IN  /\ loc.pc = "writeLabel"
        /\ IF Has(labels, loc.docId)
           THEN /\ proc' = [proc EXCEPT ![p] = [loc EXCEPT !.pc = "failed"]]
                /\ UNCHANGED <<labels, mems>>
           ELSE /\ labels' = MergeDoc(labels, loc.docId, LabelDocData(loc.built[1]))
                /\ memDrugToDocId' = Put(memDrugToDocId, loc.key, loc.docId)
                /\ memDocIdToSnapshot' = Put(memDocIdToSnapshot, loc.docId, loc.built[1])
                /\ proc' = [proc EXCEPT ![p] = [loc EXCEPT !.pc = "writeIndex"]]
        /\ UNCHANGED <<index, bucket, baseUrl, scenario, returned, failures, active, call, ret>>

\* upsertSnapshot: the label document has been set; the memory cache is
\* updated.
WriteLabel(p) ==
    LET loc == proc[p]
    IN  /\ loc.pc = "writeLabel"
        /\ labels' = MergeDoc(labels, loc.docId, LabelDocData(loc.built[1]))
        /\ memDrugToDocId' = Put(memDrugToDocId, loc.key, loc.docId)
        /\ memDocIdToSnapshot' = Put(memDocIdToSnapshot, loc.docId, loc.built[1])
        /\ proc' = [proc EXCEPT ![p] = [loc EXCEPT !.pc = "writeIndex"]]
        /\ UNCHANGED <<index, bucket, baseUrl, scenario, returned, failures, active, call, ret>>

\* upsertSnapshot: the index document has been set; the memory cache is
\* updated again and the snapshot is reloaded by its doc id.
WriteIndex(p) ==
    LET loc == proc[p]
        snapshot == loc.built[1]
        mem == Put(memDocIdToSnapshot, loc.docId, snapshot)
    IN  /\ loc.pc = "writeIndex"
        /\ index' = Put(index, loc.key,
                        [docId |-> loc.docId, setId |-> snapshot.setId,
                         effectiveTime |-> snapshot.effectiveTime])
        /\ memDrugToDocId' = Put(memDrugToDocId, loc.key, loc.docId)
        /\ memDocIdToSnapshot' = mem
        /\ proc' = [proc EXCEPT ![p] = StartGet([loc EXCEPT !.via = "reload"], mem)]
        /\ UNCHANGED <<labels, bucket, baseUrl, scenario, returned, failures, active, call, ret>>

\* The most writes the durable stores reject in one run.
MaxFailures == 1

\* upsertSnapshot: the write it awaits is rejected (storage save, label set
\* or index set); nothing catches it and rxguardAnswer rejects.
WriteFails(p) ==
    /\ proc[p].pc \in {"writeBlob", "writeLabel", "writeIndex"}
    /\ failures < MaxFailures
    /\ failures' = failures + 1
    /\ proc' = [proc EXCEPT ![p] = [@ EXCEPT !.pc = "failed"]]
    /\ UNCHANGED <<mems, stores, baseUrl, scenario, returned, active, call, ret>>

\* rxguardAnswer after an ok resolution: policy, proof card and message.  The
\* history keeps the snapshot of the first ok resolution of the query key.
Policy(p) ==
    LET loc == proc[p]
    IN  /\ loc.pc = "policy"
        /\ proc' = [proc EXCEPT ![p] =
              [loc EXCEPT !.pc = "baseline",
                          !.touched = @ \cup {"policy"},
                          !.response = Some(GatedResponse(loc.input[1], loc.primaryDrug,
                                                          loc.resolution[1].snapshot[1]))]]
        /\ returned' = IF Has(returned, loc.key) THEN returned
                       ELSE Put(returned, loc.key, loc.resolution[1].snapshot[1])
        /\ UNCHANGED <<mems, stores, baseUrl, scenario, failures, active, call, ret>>

\* input.nakedModel ?? 'both'
Want(input) == OrElse(input.nakedModel, "both")

\* maybeGetNakedAnswers with the error of a chat call left uncaught: the call
\* of rxguardAnswer fails with it.
Answered_Uncaught(loc, calls) ==
    IF calls.mistral \in {"error", "timeout"} \/ calls.llama \in {"error", "timeout"}
    THEN [loc EXCEPT !.pc = "failed", !.calls = calls, !.response = Undefined]
    ELSE [loc EXCEPT !.pc = "done",
                     !.calls = calls,
                     !.response = Some([loc.response[1] EXCEPT !.naked =
                         maybeGetNakedAnswers(loc.input[1], baseUrl, calls.mistral,
                                              calls.llama)])]

\* maybeGetNakedAnswers returns: the response is complete.
Answered(loc, calls) ==
    [loc EXCEPT !.pc = "done",
                !.calls = calls,
                !.response = Some([loc.response[1] EXCEPT !.naked =
                    maybeGetNakedAnswers(loc.input[1], baseUrl, calls.mistral,
                                         calls.llama)])]

\* maybeGetNakedAnswers up to its first await: it returns at once when no
\* baseline is asked for or no endpoint is set, else it issues the first chat
\* call.
Baseline(p) ==
    LET loc == proc[p]
        Issue == [loc EXCEPT !.pc = "chat",
                             !.touched = @ \cup {"baseline"},
                             !.calls = IF Want(loc.input[1]) \in {"mistral-7b", "both"}
                                       THEN [NoCalls EXCEPT !.mistral = "inflight"]
                                       ELSE [NoCalls EXCEPT !.llama = "inflight"]]
    IN  /\ loc.pc = "baseline"
        /\ proc' = [proc EXCEPT ![p] = IF CallsBaseline(loc.input[1], baseUrl)
                                       THEN Issue ELSE Answered(loc, NoCalls)]
        /\ UNCHANGED <<mems, stores, baseUrl, scenario, returned, failures, active, call, ret>>

\* The first chat call without the timer: it ends only when the collaborator
\* answers.
Mistral_NoTimer(p, outcome) ==
    LET loc == proc[p]
        ended == [loc.calls EXCEPT !.mistral = outcome]
    IN  /\ outcome # "timeout"
        /\ loc.pc = "chat"
        /\ loc.calls.mistral = "inflight"
        /\ proc' = [proc EXCEPT ![p] =
              IF Want(loc.input[1]) \in {"llama3-8b", "both"}
              THEN [loc EXCEPT !.calls = [ended EXCEPT !.llama = "inflight"]]
              ELSE Answered(loc, ended)]
        /\ UNCHANGED <<mems, stores, baseUrl, scenario, returned, failures, active, call, ret>>

\* The chat call of the first model has ended; the call of the second model
\* is issued now, when it is wanted.
Mistral(p, outcome) ==
    LET loc == proc[p]
        ended == [loc.calls EXCEPT !.mistral = outcome]
    IN  /\ loc.pc = "chat"
        /\ loc.calls.mistral = "inflight"
        /\ proc' = [proc EXCEPT ![p] =
              IF Want(loc.input[1]) \in {"llama3-8b", "both"}
              THEN [loc EXCEPT !.calls = [ended EXCEPT !.llama = "inflight"]]
              ELSE Answered(loc, ended)]
        /\ UNCHANGED <<mems, stores, baseUrl, scenario, returned, failures, active, call, ret>>

\* The chat call of the second model has ended.
Llama(p, outcome) ==
    LET loc == proc[p]
    IN  /\ loc.pc = "chat"
        /\ loc.calls.llama = "inflight"
        /\ proc' = [proc EXCEPT ![p] = Answered(loc, [loc.calls EXCEPT !.llama = outcome])]
        /\ UNCHANGED <<mems, stores, baseUrl, scenario, returned, failures, active, call, ret>>

\* The caller has taken the response or the error.
Deliver(p) ==
    /\ proc[p].pc \in {"done", "failed"}
    /\ proc' = [proc EXCEPT ![p] = Idle]
    /\ UNCHANGED <<mems, stores, baseUrl, scenario, returned, failures, active, call, ret>>

\* The server instance restarts: the in-process caches are empty again.
Restart ==
    /\ \A p \in Procs : proc[p].pc = "idle"
    /\ memDrugToDocId # EmptyMap \/ memDocIdToSnapshot # EmptyMap
    /\ memDrugToDocId' = EmptyMap
    /\ memDocIdToSnapshot' = EmptyMap
    /\ UNCHANGED <<stores, baseUrl, scenario, returned, failures, proc, active, call, ret>>

Next ==
    \/ \E p \in Procs, input \in Requests(scenario) : Request(p, input)
    \/ \E p \in Procs : ReadIndex(p)
    \/ \E p \in Procs : ReadLabel(p)
    \/ \E p \in Procs : ReadBlob(p)
    \/ \E p \in Procs, answer \in Answers : Fetch(p, answer)
    \/ \E p \in Procs : WriteBlob(p)
    \/ \E p \in Procs : WriteLabel(p)
    \/ \E p \in Procs : WriteIndex(p)
    \/ \E p \in Procs : WriteFails(p)
    \/ \E p \in Procs : Policy(p)
    \/ \E p \in Procs : Baseline(p)
    \/ \E p \in Procs, outcome \in ChatOutcomes : Mistral(p, outcome)
    \/ \E p \in Procs, outcome \in ChatOutcomes : Llama(p, outcome)
    \/ \E p \in Procs : Deliver(p)
    \/ Restart

Spec == Init /\ [][Next]_vars

\* Each chat call arms a timer that aborts it (llmClient.ts:25, 83) and the
\* runtime runs a timer that is due; the code between two awaits runs on.
\* Nothing of the kind holds of the label source or of the stores.
Timers ==
    \A p \in Procs :
        /\ WF_vars(Baseline(p))
        /\ WF_vars(Mistral(p, "timeout"))
        /\ WF_vars(Llama(p, "timeout"))

\* The calls of one request slot about products whose labels are short.
TimerScenarios == {"advil", "advil pm"}

InitTimers == InitSystem /\ active = {"p1"} /\ scenario \in TimerScenarios

NextTimers ==
    \/ \E p \in Procs, input \in Requests(scenario) : Request(p, input)
    \/ \E p \in Procs : ReadIndex(p)
    \/ \E p \in Procs : ReadLabel(p)
    \/ \E p \in Procs, answer \in Answers : Fetch(p, answer)
    \/ \E p \in Procs : WriteLabel(p)
    \/ \E p \in Procs : WriteIndex(p)
    \/ \E p \in Procs : WriteFails(p)
    \/ \E p \in Procs : Policy(p)
    \/ \E p \in Procs : Baseline(p)
    \/ \E p \in Procs, outcome \in ChatOutcomes : Mistral(p, outcome)
    \/ \E p \in Procs, outcome \in ChatOutcomes : Llama(p, outcome)
    \/ \E p \in Procs : Deliver(p)
    \/ Restart

SpecTimers == InitTimers /\ [][NextTimers]_vars /\ Timers

(***************************************************************************)
(* evaluatePolicy and buildProofCard on their own: the arguments are drawn *)
(* at the start, the actions apply the functions as rxguardAnswer does.    *)
(***************************************************************************)
(***************************************************************************)
(* Two calls of rxguardAnswer at once on one server instance: every slot   *)
(* takes one request, the stores start empty, no write is rejected and the *)
(* instance does not restart.                                              *)
(***************************************************************************)
RaceScenarios == {"advil", "saline"}

InitRace == InitSystem /\ active = Procs /\ scenario \in RaceScenarios

NextRace ==
    \/ \E p \in Procs, input \in Requests(scenario) : Request(p, input)
    \/ \E p \in Procs : ReadIndex(p)
    \/ \E p \in Procs, answer \in Answers : Fetch(p, answer)
    \/ \E p \in Procs : WriteBlob(p)
    \/ \E p \in Procs : WriteLabel(p)
    \/ \E p \in Procs : WriteIndex(p)
    \/ \E p \in Procs : Policy(p)
    \/ \E p \in Procs : Baseline(p)
    \/ \E p \in Procs, outcome \in ChatOutcomes : Mistral(p, outcome)
    \/ \E p \in Procs, outcome \in ChatOutcomes : Llama(p, outcome)

SpecRace == InitRace /\ [][NextRace]_vars

\* A server on which no request runs.
Quiet ==
    /\ memDrugToDocId = EmptyMap
    /\ memDocIdToSnapshot = EmptyMap
    /\ labels = EmptyMap
    /\ index = EmptyMap
    /\ bucket = EmptyMap
    /\ baseUrl = Undefined
    /\ scenario = "advil"
    /\ proc = [p \in Procs |-> Idle]
    /\ returned = EmptyMap
    /\ failures = 0
    /\ active = {}

\* A snapshot whose evidence text is missing: the type of evaluatePolicy
\* allows it, no snapshot of the label cache is one.
WithoutEvidence(snapshot) == [snapshot EXCEPT !.evidenceText = ""]

PolicySnapshots ==
    {buildLabelSnapshot(r) : r \in {IBU, IBU_TWIN, COMBO, SALINE, MTX, PADDED, WORDY}}
    \cup {WithoutEvidence(buildLabelSnapshot(r)) : r \in {IBU, SALINE}}

PolicyProfiles ==
    {Undefined, OnWarfarin,
     Some([pregnancy |-> Undefined, conditions |-> <<>>, currentMeds |-> <<"Warfarin">>]),
     Some([pregnancy |-> Some("no"), conditions |-> <<"Chronic kidney disease">>,
           currentMeds |-> <<>>]),
     Some([pregnancy |-> Some("unknown"), conditions |-> <<>>, currentMeds |-> <<>>]),
     Some([pregnancy |-> Some("trying"), conditions |-> <<>>, currentMeds |-> <<>>])}

PolicyOtherMeds ==
    {Undefined, Some(<<"Warfarin">>), Some(<<"", "Blood thinners">>),
     Some(<<"aspirin", "warfarin">>), Some(<<"Warfarin", "warfarin ">>),
     Some(<<"warfarin">>)}

PolicyCalls ==
    {[fn |-> "evaluatePolicy", snapshot |-> s, profile |-> pr, otherMeds |-> m,
      quotes |-> <<>>]
        : s \in PolicySnapshots, pr \in PolicyProfiles, m \in PolicyOtherMeds}

\* The longest list of candidate quotes handed to buildProofCard directly.
MaxQuotes == 3

\* Candidate quotes for the label IBU: two of its text, in other letter case
\* and spacing, one of another text, one of white space.
QuotePool ==
    {[section |-> "drugInteractions", quote |-> "avoid  CONCOMITANT use",
      reason |-> "Drug interaction language appears."],
     [section |-> "pregnancy", quote |-> " May cause\nfetal harm. ",
      reason |-> "Pregnancy-related risk language appears."],
     [section |-> "LABEL", quote |-> "Safe with warfarin.", reason |-> "None."],
     [section |-> "LABEL", quote |-> " \n", reason |-> "None."]}

ProofCardCalls ==
    {[fn |-> "buildProofCard", snapshot |-> buildLabelSnapshot(IBU),
      profile |-> Undefined, otherMeds |-> Undefined, quotes |-> qs]
        : qs \in CandidateLists(QuotePool, MaxQuotes)}

\* Every pair of risk labels.
BumpCalls ==
    {[fn |-> "bumpRisk", current |-> a, next |-> b] : a \in RiskLabels, b \in RiskLabels}

InitPolicy ==
    /\ Quiet
    /\ call \in PolicyCalls \cup ProofCardCalls \cup BumpCalls
    /\ ret = Undefined

\* evaluatePolicy returns.
EvaluatePolicy ==
    /\ call.fn = "evaluatePolicy"
    /\ ret = Undefined
    /\ ret' = Some(evaluatePolicy(call.snapshot, call.profile, call.otherMeds))
    /\ UNCHANGED <<mems, stores, baseUrl, scenario, returned, failures, proc, active, call>>

\* rxguardAnswer hands the quotes of the policy to buildProofCard.
CallBuildProofCard ==
    /\ call.fn = "evaluatePolicy"
    /\ ret # Undefined
    /\ call' = [call EXCEPT !.fn = "buildProofCard", !.quotes = ret[1].quotes]
    /\ ret' = Undefined
    /\ UNCHANGED <<mems, stores, baseUrl, scenario, returned, failures, proc, active>>

\* buildProofCard returns.
BuildProofCard ==
    /\ call.fn = "buildProofCard"
    /\ ret = Undefined
    /\ ret' = Some(buildProofCard(call.snapshot.setId, call.snapshot.effectiveTime,
                                  call.snapshot.evidenceHash, call.snapshot.evidenceText,
                                  call.quotes))
    /\ UNCHANGED <<mems, stores, baseUrl, scenario, returned, failures, proc, active, call>>

\* bumpRisk returns.
BumpRisk ==
    /\ call.fn = "bumpRisk"
    /\ ret = Undefined
    /\ ret' = Some(bumpRisk(call.current, call.next))
    /\ UNCHANGED <<mems, stores, baseUrl, scenario, returned, failures, proc, active, call>>

NextPolicy == EvaluatePolicy \/ CallBuildProofCard \/ BuildProofCard \/ BumpRisk

SpecPolicy == InitPolicy /\ [][NextPolicy]_vars

(***************************************************************************)
(* chooseDeterministicRecord on its own.                                   *)
(***************************************************************************)
\* The longest candidate list.
MaxCandidates == 3

\* Labels of one ingredient: dated, undated, with and without an id.
ChoosePool ==
    {IBU, IBU_OLD, IBU_TWIN, IBU_UNDATED,
     [IBU EXCEPT !.id = Some("0c3D"), !.effective_time = Undefined],
     [IBU EXCEPT !.id = Some("a1-f"), !.set_id = Undefined]}

InitChoose ==
    /\ Quiet
    /\ call \in {[fn |-> "chooseDeterministicRecord", records |-> rs]
                    : rs \in CandidateLists(ChoosePool, MaxCandidates)}
    /\ ret = Undefined

\* chooseDeterministicRecord returns.
Choose ==
    /\ call.fn = "chooseDeterministicRecord"
    /\ ret = Undefined
    /\ ret' = Some(chooseDeterministicRecord(call.records))
    /\ UNCHANGED <<mems, stores, baseUrl, scenario, returned, failures, proc, active, call>>

NextChoose == Choose

SpecChoose == InitChoose /\ [][NextChoose]_vars

(***************************************************************************)
(* The claims                                                              *)
(***************************************************************************)
\* A request whose primary drug is absent, empty or made of white space.
Blank(input) ==
    \/ input.primaryDrug = Undefined
    \/ \A i \in 1..Len(input.primaryDrug[1]) : Char(input.primaryDrug[1], i) \in WhiteSpace

\* C1: a request whose primaryDrug is absent, empty or white space only is
\* answered CLARIFY with risk UNKNOWN whatever its other fields are, and the
\* call never reaches the resolution cache, the label source, the policy or
\* the baseline: it is finished as soon as it has started, having touched
\* none of them.
C1_MissingDrugClarifies ==
    \A p \in Procs :
        (proc[p].pc # "idle" /\ Blank(proc[p].input[1])) =>
            /\ proc[p].pc = "done"
            /\ proc[p].response[1].decision = "CLARIFY"
            /\ proc[p].response[1].risk = "UNKNOWN"
            /\ proc[p].touched = {}

\* C1 happens: a white-space drug name with a profile, other medications
\* and the baseline requested, on a server with a configured baseline and a
\* warm cache.
C1_Witness ==
    \E p \in Procs :
        /\ proc[p].pc = "done"
        /\ proc[p].input[1].primaryDrug = Some(" \n")
        /\ proc[p].input[1].includeNakedModelAnswer
        /\ proc[p].input[1].profile # Undefined
        /\ proc[p].input[1].otherMeds # Undefined
        /\ baseUrl # Undefined
        /\ memDrugToDocId # EmptyMap

\* The ingredient set of a candidate: its entries on one line and in lower
\* case, the empty ones left out.
IngredientSet(r) ==
    {toLowerCase(safeOneLine(r.active_ingredient[i]))
        : i \in 1..Len(r.active_ingredient)} \ {""}

IngredientGroups(records) == {IngredientSet(records[i]) : i \in 1..Len(records)}

\* C2: when the label source returns at least two candidates whose
\* ingredient sets form at least two groups, the resolution is ambiguous,
\* never ok, and the answer is CLARIFY.
C2_DistinctGroupsAreAmbiguous ==
    \A p \in Procs :
        (/\ proc[p].records # Undefined
         /\ Len(proc[p].records[1]) >= 2
         /\ Cardinality(IngredientGroups(proc[p].records[1])) >= 2) =>
            /\ proc[p].pc \notin {"writeBlob", "writeLabel", "writeIndex", "policy"}
            /\ proc[p].resolution # Undefined => proc[p].resolution[1].kind = "ambiguous"
            /\ proc[p].pc = "done" => proc[p].response[1].decision = "CLARIFY"

C4_BlockAndCautionCarryAQuote ==
    \A p \in Procs :
        (/\ proc[p].response # Undefined
         /\ proc[p].response[1].decision \in {"BLOCK", "CAUTION"}) =>
            /\ proc[p].response[1].proofCard # Undefined
            /\ Len(proc[p].response[1].proofCard[1].quotes) >= 1

\* n occurs in h.
Occurs(n, h) == \E i \in 0..(Len(h) - Len(n)) : SubSeq(h, i + 1, i + Len(n)) = n

\* A quote whose normalized form is not empty and occurs in the normalized
\* evidence ev.
Verbatim(ev, q) ==
    normalizeForMatch(q.quote) # "" /\ Occurs(normalizeForMatch(q.quote), ev)

\* The positions of the candidate quotes that are verbatim.
Survivors(ev, quotes) == {i \in 1..Len(quotes) : Verbatim(ev, quotes[i])}

\* kept is the list of the candidates at the positions K, in their order.
KeptInOrder(kept, quotes, K) ==
    /\ Len(kept) = Cardinality(K)
    /\ \A j \in 1..Len(kept) :
          \E i \in K : kept[j] = quotes[i] /\ Cardinality({k \in K : k < i}) = j - 1

\* C5: buildProofCard returns a card for every candidate list; each quote of
\* the card has a non-empty normalized form that occurs in the normalized
\* evidence text of the snapshot; the candidates that fail this are left out
\* and the others are kept, in the order of the candidate list.
C5_QuotesAreVerbatim ==
    (call.fn = "buildProofCard" /\ ret # Undefined) =>
        /\ \A j \in 1..Len(ret[1].quotes) :
              Verbatim(normalizeForMatch(call.snapshot.evidenceText), ret[1].quotes[j])
        /\ KeptInOrder(ret[1].quotes, call.quotes,
                       Survivors(normalizeForMatch(call.snapshot.evidenceText),
                                 call.quotes))

\* C5 happens: of three candidates the second is not in the label; the card
\* holds the first and the third.
C5_Witness ==
    /\ call.fn = "buildProofCard"
    /\ ret # Undefined
    /\ Len(call.quotes) = 3
    /\ call.quotes[2].quote = "Safe with warfarin."
    /\ ret[1].quotes = <<call.quotes[1], call.quotes[3]>>

\* C6: every snapshot of an ok resolution has evidenceHash equal to the hash
\* of its evidenceText, whichever tier served it.
C6_HashMatchesText ==
    \A p \in Procs :
        (proc[p].resolution # Undefined /\ proc[p].resolution[1].kind = "ok") =>
            proc[p].resolution[1].snapshot[1].evidenceHash
                = sha256Hex(proc[p].resolution[1].snapshot[1].evidenceText)

\* C7: on a snapshot with evidence text the decision goes with the final
\* risk: HIGH with BLOCK, MODERATE with CAUTION, LOW with INFO, UNKNOWN with
\* CLARIFY and a clarifying question; no other pair is returned.
C7_DecisionFollowsRisk ==
    (/\ call.fn = "evaluatePolicy"
     /\ ret # Undefined
     /\ call.snapshot.evidenceText # "") =>
        \/ ret[1].risk = "HIGH" /\ ret[1].decision = "BLOCK"
        \/ ret[1].risk = "MODERATE" /\ ret[1].decision = "CAUTION"
        \/ ret[1].risk = "LOW" /\ ret[1].decision = "INFO"
        \/ /\ ret[1].risk = "UNKNOWN"
           /\ ret[1].decision = "CLARIFY"
           /\ OrElse(ret[1].clarifyingQuestion, "") # ""

\* C7 happens: a label whose rules are of MODERATE severity only, for a
\* profile that upgrades none of them.
C7_Witness ==
    /\ call.fn = "evaluatePolicy"
    /\ ret # Undefined
    /\ call.snapshot.evidenceText # ""
    /\ Contains(ret[1].rulesTriggered, "BLEEDING_RISK_LANGUAGE")
    /\ ret[1].risk = "MODERATE"
    /\ ret[1].decision = "CAUTION"

\* C8: on a snapshot without evidence text evaluatePolicy returns CLARIFY
\* and UNKNOWN, whatever the sections, the profile and the other
\* medications are.
C8_NoEvidenceClarifies ==
    (/\ call.fn = "evaluatePolicy"
     /\ ret # Undefined
     /\ call.snapshot.evidenceText = "") =>
        ret[1].decision = "CLARIFY" /\ ret[1].risk = "UNKNOWN"

\* C8 happens: without evidence text, a section matches a rule and another
\* medication is found in the interaction section.
C8_Witness ==
    /\ call.fn = "evaluatePolicy"
    /\ ret # Undefined
    /\ call.snapshot.evidenceText = ""
    /\ Contains(ret[1].rulesTriggered, "DRUG_INTERACTION_SECTION")
    /\ Contains(ret[1].rulesTriggered, "INTERACTION_OTHER_MED_MENTIONED")

\* The interaction section names warfarin, in any letter case.
MentionsWarfarin(snapshot) ==
    Occurs("warfarin", toLowerCase(snapshot.sections.drugInteractions))

\* The result of an interaction hit: the rule, HIGH, BLOCK and a quote of the
\* interaction section.
InteractionBlocks(result) ==
    /\ Contains(result.rulesTriggered, "INTERACTION_OTHER_MED_MENTIONED")
    /\ result.risk = "HIGH"
    /\ result.decision = "BLOCK"
    /\ \E i \in 1..Len(result.quotes) : result.quotes[i].section = "drugInteractions"

\* C9 as stated: when the currentMeds of the profile are ["Warfarin"] and the
\* interaction section names warfarin, the result has the interaction-hit
\* rule, HIGH, BLOCK and a quote of the interaction section.
C9_CurrentMedsHitInteractions ==
    (/\ call.fn = "evaluatePolicy"
     /\ ret # Undefined
     /\ call.profile # Undefined
     /\ call.profile[1].currentMeds = <<"Warfarin">>
     /\ MentionsWarfarin(call.snapshot)) =>
        InteractionBlocks(ret[1])

\* C9, amended: when otherMeds is ["Warfarin"], the snapshot has evidence
\* text and the interaction section names warfarin, the result has the
\* interaction-hit rule, HIGH, BLOCK and a quote of the interaction section.
C9_OtherMedsHitInteractions ==
    (/\ call.fn = "evaluatePolicy"
     /\ ret # Undefined
     /\ call.otherMeds = Some(<<"Warfarin">>)
     /\ call.snapshot.evidenceText # ""
     /\ MentionsWarfarin(call.snapshot)) =>
        InteractionBlocks(ret[1])

\* C9 happens: a label that names WARFARIN in capitals, no profile.
C9_Witness ==
    /\ call.fn = "evaluatePolicy"
    /\ ret # Undefined
    /\ call.snapshot = buildLabelSnapshot(IBU_TWIN)
    /\ call.profile = Undefined
    /\ call.otherMeds = Some(<<"Warfarin">>)
    /\ ret[1].decision = "BLOCK"

\* C10: a response for a resolved label with evidence text, in which no rule
\* and no upgrade is triggered, has decision INFO and risk LOW.
C10_NoMatchIsInfoLow ==
    \A p \in Procs :
        (/\ proc[p].response # Undefined
         /\ proc[p].response[1].proofCard # Undefined
         /\ proc[p].resolution[1].snapshot[1].evidenceText # ""
         /\ proc[p].response[1].debug.rulesTriggered = <<>>) =>
            proc[p].response[1].decision = "INFO" /\ proc[p].response[1].risk = "LOW"

\* The risk after the first k base rules of a call of evaluatePolicy.
RiskAfterRules(k) == BaseRules(k, call.snapshot, call.profile).risk

\* The risk after the profile upgrades.
RiskAfterUpgrades ==
    ProfileUpgrades(BaseRules(Len(BASE_RULES), call.snapshot, call.profile),
                    call.profile).risk

\* The risk after the interaction check.
RiskAfterInteractions ==
    InteractionCheck(ProfileUpgrades(BaseRules(Len(BASE_RULES), call.snapshot,
                                               call.profile), call.profile),
                     call.snapshot, call.otherMeds).risk

\* C11: bumpRisk(a, b) is the greater of a and b in the order
\* UNKNOWN < LOW < MODERATE < HIGH: it is one of the two, not below either,
\* the same with the arguments exchanged, and a when a = b.  The running risk
\* of evaluatePolicy does not decrease from one base rule to the next, nor
\* through the profile upgrades, nor through the interaction check.
C11_BumpRiskIsMaximum ==
    /\ (call.fn = "bumpRisk" /\ ret # Undefined) =>
          /\ ret[1] \in {call.current, call.next}
          /\ RiskOrder[ret[1]] >= RiskOrder[call.current]
          /\ RiskOrder[ret[1]] >= RiskOrder[call.next]
          /\ ret[1] = bumpRisk(call.next, call.current)
          /\ call.current = call.next => ret[1] = call.current
    /\ (call.fn = "evaluatePolicy" /\ ret # Undefined) =>
          /\ \A k \in 1..Len(BASE_RULES) :
                RiskOrder[RiskAfterRules(k - 1)] <= RiskOrder[RiskAfterRules(k)]
          /\ RiskOrder[RiskAfterRules(Len(BASE_RULES))] <= RiskOrder[RiskAfterUpgrades]
          /\ RiskOrder[RiskAfterUpgrades] <= RiskOrder[RiskAfterInteractions]

\* C11 happens: the later risk is the lower one and the risk so far is kept.
C11_Witness ==
    /\ call.fn = "bumpRisk"
    /\ call.current = "HIGH"
    /\ call.next = "LOW"
    /\ ret = Some("HIGH")

\* A resolution of a query key that started after a resolution of the same
\* key had returned ok.
Later(p) ==
    /\ proc[p].pc # "idle"
    /\ proc[p].primaryDrug # ""
    /\ proc[p].known

\* C12: a resolution of a query key that comes after an ok resolution of the
\* same key does not call the label source, does not fail, and returns ok
\* with a snapshot of the same setId, effectiveTime and evidence text as the
\* first one.
C12_OkIsSticky ==
    \A p \in Procs :
        Later(p) =>
            /\ "labelSource" \notin proc[p].touched
            /\ proc[p].pc \notin {"fetch", "failed"}
            /\ proc[p].resolution # Undefined =>
                  /\ proc[p].resolution[1].kind = "ok"
                  /\ proc[p].resolution[1].snapshot[1].setId
                        = returned[proc[p].key].setId
                  /\ proc[p].resolution[1].snapshot[1].effectiveTime
                        = returned[proc[p].key].effectiveTime
                  /\ proc[p].resolution[1].snapshot[1].evidenceText
                        = returned[proc[p].key].evidenceText

\* The resolution of the call in slot p has the given outcome.
Outcome(p, kind) ==
    /\ proc[p].resolution # Undefined
    /\ proc[p].resolution[1].kind = kind

\* C13: when a resolution has come out ambiguous, the memory maps, the index,
\* the label collection and the storage bucket are as the call found them.
C13_AmbiguousLeavesCachesAlone ==
    \A p \in Procs :
        Outcome(p, "ambiguous") =>
            /\ proc[p].before # Undefined
            /\ caches = proc[p].before[1]

\* An ambiguous resolution that started with label documents in the store.
C13_Witness ==
    \E p \in Procs :
        /\ Outcome(p, "ambiguous")
        /\ proc[p].pc = "done"
        /\ labels # EmptyMap

\* The label source has answered the call in slot p with a status that is
\* neither a success nor 404.
UpstreamFailed(p) ==
    /\ proc[p].status # 0
    /\ proc[p].status # 404
    /\ proc[p].status < 200 \/ proc[p].status > 299

\* C14: after an answer with a non-success status other than 404 the call has
\* failed: it has no resolution and no response, and it is not at the label
\* source again; after a 404 the resolution is not_found.
C14_UpstreamErrorPropagates ==
    \A p \in Procs :
        /\ UpstreamFailed(p) =>
              /\ proc[p].pc = "failed"
              /\ proc[p].resolution = Undefined
              /\ proc[p].response = Undefined
        /\ proc[p].status = 404 => Outcome(p, "not_found")

\* A call that failed on status 500 with label documents already stored.
C14_Witness ==
    \E p \in Procs :
        /\ proc[p].status = 500
        /\ proc[p].pc = "failed"
        /\ labels # EmptyMap

\* A 404 answered and the response delivered as not_found.
C14_Witness404 ==
    \E p \in Procs :
        /\ proc[p].status = 404
        /\ proc[p].pc = "done"

\* s ends with t.
EndsWith(s, t) ==
    /\ Len(s) >= Len(t)
    /\ SubSeq(s, Len(s) - Len(t) + 1, Len(s)) = t

\* The call in slot p is on one of the paths rxguardAnswer recovers from by
\* itself: no primary drug, a not_found or an ambiguous resolution.
Recovered(p) ==
    /\ proc[p].pc # "idle"
    /\ \/ proc[p].primaryDrug = ""
       \/ Outcome(p, "not_found")
       \/ Outcome(p, "ambiguous")

\* C15: on a recovered path the call does not fail, and its response has
\* decision CLARIFY, risk UNKNOWN, a clarifying question that is not empty
\* and a message that ends with the disclaimer.
C15_RecoveredPathsClarify ==
    \A p \in Procs :
        Recovered(p) =>
            /\ proc[p].pc # "failed"
            /\ proc[p].response # Undefined
            /\ proc[p].response[1].decision = "CLARIFY"
            /\ proc[p].response[1].risk = "UNKNOWN"
            /\ proc[p].response[1].clarifyingQuestion # Undefined
            /\ proc[p].response[1].clarifyingQuestion[1] # ""
            /\ EndsWith(proc[p].response[1].message, disclaimer)

\* A not_found resolution answered in full although a baseline model timed
\* out.
C15_Witness ==
    \E p \in Procs :
        /\ Outcome(p, "not_found")
        /\ proc[p].pc = "done"
        /\ proc[p].calls.llama = "timeout"

\* s starts with t.
StartsWith(s, t) ==
    /\ Len(s) >= Len(t)
    /\ SubSeq(s, 1, Len(t)) = t

\* The fields of a response the baseline must not touch.
Core(r) == <<r.decision, r.risk, r.clarifyingQuestion, r.message, r.proofCard>>

\* The request with no baseline asked for.
WithoutBaseline(input) ==
    [input EXCEPT !.includeNakedModelAnswer = FALSE, !.nakedModel = Undefined]

\* The response rxguardAnswer builds for the request of slot p without a
\* baseline, on the resolution the call got.
Unassisted(p) ==
    LET loc == proc[p]
        plain == WithoutBaseline(loc.input[1])
        drug == primaryDrugOf(plain)
    IN  IF drug = "" THEN MissingDrugResponse
        ELSE IF Outcome(p, "not_found") THEN NotFoundResponse(drug)
        ELSE IF Outcome(p, "ambiguous") THEN AmbiguousResponse(drug, loc.resolution[1])
        ELSE GatedResponse(plain, drug, loc.resolution[1].snapshot[1])

\* The call in slot p asked for a baseline and is past the start of
\* maybeGetNakedAnswers.
Assisted(p) ==
    /\ proc[p].pc \in {"chat", "done"}
    /\ proc[p].input[1].includeNakedModelAnswer

\* C16: whatever the baseline does (answer, error, timeout, no endpoint
\* set), the decision, risk, clarifying question, message and proof card of
\* a call that asked for it are those of the same request without a
\* baseline; no call fails once a chat call was issued; and a chat call that
\* failed shows as a diagnostic string in the field of its model.
C16_BaselineIsInert ==
    \A p \in Procs :
        /\ Assisted(p) => Core(proc[p].response[1]) = Core(Unassisted(p))
        /\ proc[p].pc = "failed" =>
              /\ proc[p].calls = NoCalls
              /\ "baseline" \notin proc[p].touched
        /\ Assisted(p) /\ proc[p].pc = "done" /\ proc[p].primaryDrug # "" =>
              LET naked == proc[p].response[1].naked
                  calls == proc[p].calls
              IN  /\ naked # Undefined
                  /\ OrElse(baseUrl, "") = "" =>
                        /\ naked[1].mistral7b = Some("[RXGUARD_LLM_BASE_URL not set]")
                        /\ naked[1].llama3_8b = Some("[RXGUARD_LLM_BASE_URL not set]")
                  /\ calls.mistral \in {"error", "timeout"} =>
                        StartsWith(naked[1].mistral7b[1], "[Mistral error] ")
                  /\ calls.llama \in {"error", "timeout"} =>
                        StartsWith(naked[1].llama3_8b[1], "[Llama error] ")

\* A gated answer delivered in full after one baseline model failed and the
\* other timed out.
C16_Witness ==
    \E p \in Procs :
        /\ proc[p].pc = "done"
        /\ Outcome(p, "ok")
        /\ proc[p].response[1].decision \in {"BLOCK", "CAUTION"}
        /\ proc[p].calls = [mistral |-> "error", llama |-> "timeout"]

\* C17: when both baseline models are wanted, the call of the second model
\* is issued independently of when the call of the first one ends: while the
\* first call is in flight the second has been issued too.
C17_CallsAreIndependent ==
    \A p \in Procs :
        /\ proc[p].pc = "chat"
        /\ Want(proc[p].input[1]) = "both"
        /\ proc[p].calls.mistral = "inflight"
        => proc[p].calls.llama # "none"

\* The calls in slots p and q are two first resolutions of one query key that
\* both missed every cache tier and got the same answer of the label source,
\* an answer of which p has pinned a record.
Raced(p, q) ==
    /\ p # q
    /\ proc[p].key = proc[q].key
    /\ "labelSource" \in proc[p].touched
    /\ "labelSource" \in proc[q].touched
    /\ proc[p].records = proc[q].records
    /\ proc[p].built # Undefined

Resolving(p) == proc[p].pc \in {"policy", "baseline", "chat", "done"}

\* The durable stores after one resolution of the call loc from empty stores.
SingleResolution(loc) ==
    LET snapshot == loc.built[1]
    IN  [labels |-> MergeDoc(EmptyMap, loc.docId, LabelDocData(snapshot)),
         bucket |-> IF Oversized(snapshot)
                    THEN Put(EmptyMap, StoragePath(loc.docId), snapshot.evidenceText)
                    ELSE EmptyMap,
         index |-> Put(EmptyMap, loc.key,
                       [docId |-> loc.docId, setId |-> snapshot.setId,
                        effectiveTime |-> snapshot.effectiveTime])]

\* C18: of two concurrent first resolutions of one key with the same answer
\* of the label source neither fails, both build the same snapshot and
\* return ok with it, and once both have resolved the label collection, the
\* bucket and the index are what one resolution alone leaves.
C18_RaceIsIdempotent ==
    \A p, q \in Procs :
        Raced(p, q) =>
            /\ proc[p].pc # "failed"
            /\ proc[q].pc # "failed"
            /\ proc[q].built = proc[p].built
            /\ Resolving(p) /\ Resolving(q) =>
                  /\ Outcome(p, "ok")
                  /\ Outcome(q, "ok")
                  /\ proc[p].resolution[1].snapshot = proc[q].resolution[1].snapshot
                  /\ proc[p].resolution[1].snapshot = proc[p].built
                  /\ [labels |-> labels, bucket |-> bucket, index |-> index]
                        = SingleResolution(proc[p])

\* Two raced resolutions of an oversized label, both answered.
C18_Witness ==
    /\ Raced("p1", "p2")
    /\ proc["p1"].pc = "done"
    /\ proc["p2"].pc = "done"
    /\ bucket # EmptyMap

\* C19: the label document of a (setId, effectiveTime) pair is written once:
\* no step of upsertSnapshot sets a label document that is already in the
\* primary store.
C19_SnapshotWrittenOnce ==
    [][\A p \in Procs :
          proc[p].pc = "writeLabel" /\ proc'[p].pc = "writeIndex"
          => ~Has(labels, proc[p].docId)]_vars

\* C20: while a call that missed every tier is in upsertSnapshot or has left
\* it, the memory cache holds the query only if the label document, the
\* index document and, for an oversized text, the stored text are written.
C20_MemoryAfterDurableWrites ==
    \A p \in Procs :
        proc[p].built # Undefined /\ Has(memDrugToDocId, proc[p].key) =>
            /\ Has(memDocIdToSnapshot, proc[p].docId)
            /\ Has(labels, proc[p].docId)
            /\ Has(index, proc[p].key)
            /\ Oversized(proc[p].built[1]) => Has(bucket, StoragePath(proc[p].docId))

\* evaluatePolicy has returned.
Evaluated == call.fn = "evaluatePolicy" /\ ret # Undefined

\* The profile says trying or pregnant.
Expecting(profile) ==
    /\ profile # Undefined
    /\ profile[1].pregnancy \in {Some("trying"), Some("pregnant_t1"),
                                 Some("pregnant_t2"), Some("pregnant_t3")}

RECURSIVE BaseRulesUnaware(_, _, _)
\* The loop over BASE_RULES with the pregnancy rule left out.
BaseRulesUnaware(k, snapshot, profile) ==
    IF k = 0 THEN [rulesTriggered |-> <<>>, risk |-> "UNKNOWN", quotes |-> <<>>]
    ELSE IF BASE_RULES[k].id = "PREGNANCY_RISK_LANGUAGE"
    THEN BaseRulesUnaware(k - 1, snapshot, profile)
    ELSE ApplyRule(BaseRulesUnaware(k - 1, snapshot, profile), BASE_RULES[k],
                   snapshot, profile)

\* C21: PREGNANCY_RISK_LANGUAGE is triggered and a quote of the pregnancy
\* section is given only for a profile that says trying or pregnant; for
\* every other profile the loop over the base rules ends with the rules,
\* the risk and the quotes it has without the pregnancy rule.
C21_PregnancyRuleNeedsStatus ==
    Evaluated =>
        /\ (\/ Contains(ret[1].rulesTriggered, "PREGNANCY_RISK_LANGUAGE")
            \/ \E i \in 1..Len(ret[1].quotes) : ret[1].quotes[i].section = "pregnancy")
           => Expecting(call.profile)
        /\ ~Expecting(call.profile) =>
              BaseRules(Len(BASE_RULES), call.snapshot, call.profile)
                = BaseRulesUnaware(Len(BASE_RULES), call.snapshot, call.profile)

\* A label with pregnancy language evaluated for a profile with pregnancy
\* status unknown.
C21_Witness ==
    /\ Evaluated
    /\ call.profile # Undefined
    /\ call.profile[1].pregnancy = Some("unknown")
    /\ Test(call.snapshot.sections.pregnancy, BASE_RULES[3].pattern)

\* An entry of the list of the profile has one of the words in it, in any
\* letter case.
Names(list, words) ==
    \E i \in 1..Len(list) : \E w \in words : Occurs(w, toLowerCase(list[i]))

OnAnticoagulant(profile) ==
    /\ profile # Undefined
    /\ Names(profile[1].currentMeds, {"warfarin", "apixaban", "rivaroxaban", "dabigatran"})

HasRenalCondition(profile) ==
    /\ profile # Undefined
    /\ Names(profile[1].conditions, {"ckd", "kidney", "renal"})

\* The first position of v in seq, 0 when there is none.
Position(seq, v) ==
    IF Contains(seq, v) THEN CHOOSE i \in 1..Len(seq) :
                                 seq[i] = v /\ \A j \in 1..(i - 1) : seq[j] # v
    ELSE 0

\* The marker is in the list exactly on the given condition, and behind rule.
MarkerIff(rules, marker, rule, condition) ==
    /\ Contains(rules, marker) <=> (condition /\ Contains(rules, rule))
    /\ Contains(rules, marker) => Position(rules, rule) < Position(rules, marker)

\* C22: PROFILE_ANTICOAGULANT_UPGRADE is triggered exactly when a current
\* medication of the profile names an anticoagulant and
\* BLEEDING_RISK_LANGUAGE is triggered, PROFILE_CKD_UPGRADE exactly when a
\* condition names a renal keyword and RENAL_RISK_LANGUAGE is triggered;
\* each marker comes after its base rule; with a marker and evidence text
\* the risk is HIGH and the decision BLOCK.
C22_UpgradesFollowTheirRule ==
    Evaluated =>
        /\ MarkerIff(ret[1].rulesTriggered, "PROFILE_ANTICOAGULANT_UPGRADE",
                     "BLEEDING_RISK_LANGUAGE", OnAnticoagulant(call.profile))
        /\ MarkerIff(ret[1].rulesTriggered, "PROFILE_CKD_UPGRADE",
                     "RENAL_RISK_LANGUAGE", HasRenalCondition(call.profile))
        /\ (/\ call.snapshot.evidenceText # ""
            /\ \/ Contains(ret[1].rulesTriggered, "PROFILE_ANTICOAGULANT_UPGRADE")
               \/ Contains(ret[1].rulesTriggered, "PROFILE_CKD_UPGRADE"))
           => ret[1].risk = "HIGH" /\ ret[1].decision = "BLOCK"

\* Both markers on a label with evidence text.
C22_Witness ==
    /\ Evaluated
    /\ call.snapshot.evidenceText # ""
    /\ Contains(ret[1].rulesTriggered, "PROFILE_ANTICOAGULANT_UPGRADE")
    /\ Contains(ret[1].rulesTriggered, "PROFILE_CKD_UPGRADE")

\* The quotes the interaction cross-check has added to a result.
InteractionQuotes(result) ==
    LET OfCheck(q) == StartsWith(q.reason, "The interaction section mentions ")
    IN  SelectSeq(result.quotes, OfCheck)

\* The quote q is the one of the cross-check for the medication med: med hits
\* the interaction section, and q is a piece of that section, as it is
\* written, in which the name occurs after normalization.
QuoteOfHit(q, med, interactions) ==
    /\ normalizeForMatch(med) # ""
    /\ Occurs(normalizeForMatch(med), normalizeForMatch(interactions))
    /\ q.reason = "The interaction section mentions \"" \o med \o "\"."
    /\ Occurs(q.quote, interactions)
    /\ Occurs(normalizeForMatch(med), normalizeForMatch(q.quote))

\* C23: the cross-check adds at most 3 quotes; they are the quotes of
\* medications of otherMeds that hit the interaction section, taken in the
\* order of otherMeds, no two of them for the same medication; each is a
\* piece of the interaction section that has the name in it.
C23_InteractionQuotesShowTheHit ==
    Evaluated =>
        LET meds == OrElse(call.otherMeds, <<>>)
            quotes == InteractionQuotes(ret[1])
        IN  /\ Len(quotes) <= 3
            /\ \E f \in [1..Len(quotes) -> 1..Len(meds)] :
                  /\ \A i, j \in 1..Len(quotes) :
                        i < j => /\ f[i] < f[j]
                                 /\ normalizeForMatch(meds[f[i]])
                                       # normalizeForMatch(meds[f[j]])
                  /\ \A i \in 1..Len(quotes) :
                        QuoteOfHit(quotes[i], meds[f[i]],
                                   call.snapshot.sections.drugInteractions)

\* The ingredients of an option, as a set of lower-case names.
OptionGroup(o) ==
    {toLowerCase(safeOneLine(o.activeIngredients[i]))
        : i \in 1..Len(o.activeIngredients)} \ {""}

\* C24: the options of an ambiguous resolution are at most 5 and are of at
\* least two ingredient groups.
C24_OptionsDistinguish ==
    \A p \in Procs :
        Outcome(p, "ambiguous") =>
            LET options == proc[p].resolution[1].options
            IN  /\ Len(options) <= 5
                /\ Cardinality({OptionGroup(options[i]) : i \in 1..Len(options)}) >= 2

\* The snapshots held anywhere: in memory, in a call, in a resolution.
SnapshotsHeld ==
    {memDocIdToSnapshot[d] : d \in DOMAIN memDocIdToSnapshot}
        \cup {proc[p].built[1] : p \in {q \in Procs : proc[q].built # Undefined}}
        \cup {proc[p].resolution[1].snapshot[1]
                 : p \in {q \in Procs : Outcome(q, "ok")}}

\* The label source gave the call one formulation and the record chosen of
\* it lacks set_id or effective_time.
Unpinnable(loc) ==
    /\ loc.records # Undefined
    /\ Len(loc.records[1]) > 0
    /\ ~detectAmbiguity(loc.records[1]).ambiguous
    /\ LET record == chooseDeterministicRecord(loc.records[1])
       IN  record # Undefined /\ MissingIdentity(record[1])

\* C25: no snapshot in memory, in a call or in the label collection is of an
\* empty setId or effectiveTime; a call whose
\* chosen record lacks one of them has failed without a resolution or a
\* response, and the step that found it out has written to no cache tier.
C25_NoSnapshotWithoutIdentity ==
    /\ [](/\ \A s \in SnapshotsHeld : s.setId # "" /\ s.effectiveTime # ""
          /\ \A d \in DOMAIN labels :
                /\ labels[d].setId # "" /\ labels[d].effectiveTime # ""
                /\ d = labels[d].setId \o "_" \o labels[d].effectiveTime
          /\ \A p \in Procs :
                Unpinnable(proc[p]) =>
                    /\ proc[p].pc = "failed"
                    /\ proc[p].built = Undefined
                    /\ proc[p].resolution = Undefined
                    /\ proc[p].response = Undefined)
    /\ [][\A p \in Procs :
            proc[p].pc = "fetch" /\ Unpinnable(proc'[p]) => UNCHANGED caches]_vars

\* A call has failed on a record without effective_time, with label
\* documents of other calls in the store.
C25_Witness ==
    \E p \in Procs :
        /\ Unpinnable(proc[p])
        /\ proc[p].pc = "failed"
        /\ labels # EmptyMap

\* The call in slot p has just had the label document of its snapshot written.
Stored(p) == proc[p].built # Undefined /\ proc[p].pc = "writeIndex"

\* The call in slot p was served an ok resolution by the index and the label
\* collection, for a query that had an ok resolution before.
ServedFromDurable(p) ==
    /\ Outcome(p, "ok")
    /\ proc[p].via = "index"
    /\ proc[p].known
    /\ ~Has(memDocIdToSnapshot, proc[p].docId) \/ Has(labels, proc[p].docId)

\* C26: a snapshot of at most 900,000 bytes is stored with its text inline;
\* a larger one with its text in storage at rxguard/labels/{docId}.txt and a
\* label document that holds the pointer and no text; a resolution served
\* from the index and the label collection returns the text that the first
\* resolution of the query returned; storage is read only for a document
\* with a pointer and without text, and written only with the text of an
\* oversized snapshot at its path.
C26_OverflowRoundTrip ==
    /\ [](\A p \in Procs :
            /\ Stored(p) =>
                  LET snapshot == proc[p].built[1]
                      doc == labels[proc[p].docId]
                      path == StoragePath(proc[p].docId)
                  IN  IF Oversized(snapshot)
                      THEN /\ doc.evidenceText = Undefined
                           /\ doc.evidenceStoragePath = Some(path)
                           /\ Has(bucket, path)
                           /\ bucket[path] = snapshot.evidenceText
                      ELSE doc.evidenceText = Some(snapshot.evidenceText)
            /\ ServedFromDurable(p) =>
                  proc[p].resolution[1].snapshot[1].evidenceText
                      = returned[proc[p].key].evidenceText
            /\ proc[p].pc = "readBlob" =>
                  /\ proc[p].data[1].evidenceStoragePath # Undefined
                  /\ proc[p].data[1].evidenceText = Undefined)
    /\ [][bucket' # bucket =>
            \E p \in Procs :
                /\ proc[p].built # Undefined
                /\ Oversized(proc[p].built[1])
                /\ bucket' = Put(bucket,
                                 "rxguard/labels/" \o proc[p].built[1].setId \o "_"
                                     \o proc[p].built[1].effectiveTime \o ".txt",
                                 proc[p].built[1].evidenceText)]_vars

\* C27: a call that has come to the baseline stage, or has a chat call in
\* flight, eventually has its response, whether the baseline collaborator
\* answers or not.
C27_BaselineTimesOut ==
    \A p \in Procs :
        proc[p].pc \in {"baseline", "chat"} ~>
            (proc[p].pc = "done" /\ proc[p].response # Undefined)

\* Both chat calls of a request were aborted by their timers and the
\* response holds the two diagnostic strings.
C27_Witness ==
    \E p \in Procs :
        /\ proc[p].pc = "done"
        /\ proc[p].calls = [mistral |-> "timeout", llama |-> "timeout"]
        /\ proc[p].response[1].naked
              = Some([mistral7b |-> Some("[Mistral error] AbortError: This operation was aborted"),
                      llama3_8b |-> Some("[Llama error] AbortError: This operation was aborted")])

\* C28: a candidate list whose records all have the same set of ingredients
\* (order, letter case and repeated entries aside) is not resolved as
\* ambiguous.
C28_GroupsAreSets ==
    \A p \in Procs :
        (/\ proc[p].records # Undefined
         /\ Len(proc[p].records[1]) >= 2
         /\ Cardinality(IngredientGroups(proc[p].records[1])) = 1) =>
            ~Outcome(p, "ambiguous")

\* C29: every index entry names a label document that exists, and every
\* label document with a storage path names a blob that exists, also after a
\* rejected write.
C29_NoDanglingReferences ==
    /\ \A k \in DOMAIN index : Has(labels, index[k].docId)
    /\ \A d \in DOMAIN labels :
          labels[d].evidenceStoragePath # Undefined =>
              Has(bucket, labels[d].evidenceStoragePath[1])

\* A call failed on a rejected write with an index entry in place and a
\* label document that points to storage.
C29_Witness ==
    /\ failures > 0
    /\ index # EmptyMap
    /\ \E d \in DOMAIN labels : labels[d].evidenceStoragePath # Undefined
    /\ \E p \in Procs : proc[p].pc = "failed" /\ proc[p].built # Undefined

\* list a with entries added: a is what is left of b when entries are taken
\* out.
Extends(b, a) ==
    \E f \in [1..Len(a) -> 1..Len(b)] :
        /\ \A i, j \in 1..Len(a) : i < j => f[i] < f[j]
        /\ \A i \in 1..Len(a) : a[i] = b[f[i]]

\* The context (profile, otherMeds) is the context (less, fewer) with entries
\* added to otherMeds, currentMeds or conditions, or with the pregnancy
\* status turned from absent, no or unknown to trying or pregnant.  An absent
\* profile counts as one with no status and empty lists.
AddsTo(profile, otherMeds, less, fewer) ==
    LET Field(pr, f) == IF pr = Undefined THEN <<>> ELSE pr[1][f]
    IN  /\ Extends(OrElse(otherMeds, <<>>), OrElse(fewer, <<>>))
        /\ Extends(Field(profile, "currentMeds"), Field(less, "currentMeds"))
        /\ Extends(Field(profile, "conditions"), Field(less, "conditions"))
        /\ \/ Field(profile, "pregnancy") = Field(less, "pregnancy")
           \/ ~Expecting(less) /\ Expecting(profile)

\* C30: on a snapshot with evidence text, the result for a context is of no
\* lower risk than the result for any context it adds to, and has every rule
\* of that result.
C30_RiskIsMonotone ==
    (Evaluated /\ call.snapshot.evidenceText # "") =>
        \A less \in PolicyProfiles, fewer \in PolicyOtherMeds :
            AddsTo(call.profile, call.otherMeds, less, fewer) =>
                LET before == evaluatePolicy(call.snapshot, less, fewer)
                IN  /\ RiskOrder[before.risk] <= RiskOrder[ret[1].risk]
                    /\ \A i \in 1..Len(before.rulesTriggered) :
                          \E j \in 1..Len(ret[1].rulesTriggered) :
                              ret[1].rulesTriggered[j] = before.rulesTriggered[i]

\* A context that adds a medication to otherMeds and has a higher risk and
\* one rule more for it.
C30_Witness ==
    /\ Evaluated
    /\ call.snapshot.evidenceText # ""
    /\ call.otherMeds = Some(<<"aspirin", "warfarin">>)
    /\ AddsTo(call.profile, call.otherMeds, call.profile, Some(<<"aspirin">>))
    /\ LET before == evaluatePolicy(call.snapshot, call.profile, Some(<<"aspirin">>))
       IN  /\ RiskOrder[before.risk] < RiskOrder[ret[1].risk]
           /\ Len(before.rulesTriggered) < Len(ret[1].rulesTriggered)
====
